---- MODULE Spec2Model ----
(***************************************************************************)
(* Flow scheduling and delivery engine of happy-bot (bot.py, db.py,        *)
(* crm.py).                                                                *)
(*                                                                         *)
(* Strings that are split on ':' by the code (flow names, job keys,        *)
(* callback payloads) are modelled as non-empty sequences of colon-free    *)
(* segments: "flow:day1" is <<"flow", "day1">>, the empty string is <<"">>,*)
(* and a + ":" + b is a \o b.  Integers inside such strings are written    *)
(* with ToString and read back with ParseInt.                              *)
(*                                                                         *)
(* Every coroutine is cut into steps at its awaits; one action is one      *)
(* stretch of code that asyncio runs without yielding, together with the   *)
(* store or channel call that ends it.                                     *)
(***************************************************************************)
EXTENDS Integers, Sequences, FiniteSets, TLC

VARIABLES
    now,        \* int(time.time())
    ticks,      \* number of clock advances so far
    events,     \* number of inbound events and console edits so far
    faulty,     \* the store and channel calls that can fail in this run
    blocks,     \* table content_blocks
    modes,      \* table flow modes (flow -> off | manual | auto, "" = no row)
    changed,    \* history: per flow, the time its mode was last saved (0 = never)
    triggers,   \* table flow_triggers
    actions,    \* table flow actions (post-flow actions)
    jobs,       \* table jobs; the index of a row is its id
    pressed,    \* gate-pressed records <<user_id, block_id>>
    unlocked,   \* users whose state has lessons_unlocked = true
    flowModes,  \* _FLOW_MODES, the cache of modes
    locks,      \* _USER_LOCKS: user -> task holding the lock, 0 when free
    running,    \* _RUNNING_JOBS
    sched,      \* jobs_loop: its position and locals; missed is history
    tasks,      \* every task created so far (job dispatches, handler renders)
    sent,       \* per user, the messages delivered to the chat, in order
    upserts,    \* history: the successful upsert_job calls <<user, key, run_at>>
    acks,       \* history: the button presses received, who pressed which control
    safe,       \* one _safe_call: the attempts made, what fn() does, the return
    wire        \* one job key on its way from its producer to the scheduler

vars == <<now, ticks, events, faulty, blocks, changed, modes, triggers, actions, jobs,
          pressed, unlocked, flowModes, locks, running, sched, tasks, sent,
          upserts, acks, safe, wire>>

----------------------------------------------------------------------------
(* Bounds of the model *)

MaxTicks == 3
MaxEvents == 2

(* Program constants *)

StartTime == 100
JOBS_CONCURRENCY == 2
FLOW_MODES_REFRESH_SECONDS == 20
FETCH_LIMIT == 50
MaxNum == 12

Users == {1, 2}

EmptyStr == <<"">>

W  == <<"welcome">>
BN == <<"bonus">>
D1 == <<"day1">>
D2 == <<"day2">>
D3 == <<"day3">>

\* the flow names of the store, in alphabetical order
FlowOrder == <<BN, D1, D2, D3, W>>
FlowNames == {FlowOrder[i] : i \in 1..Len(FlowOrder)}

COURSE_COMPLETE_FLOW == D3

----------------------------------------------------------------------------
(* Strings *)

IsNum(s) == \E n \in 0..MaxNum : ToString(n) = s
ParseInt(s) == CHOOSE n \in 0..MaxNum : ToString(n) = s

\* s.startswith(prefix + ":")
StartsWith(s, prefix) == Len(s) >= 2 /\ s[1] = prefix

\* s.split(":", n): at most n + 1 parts, the last one holding the rest
Split(s, n) ==
    IF Len(s) <= n + 1
    THEN [i \in 1..Len(s) |-> <<s[i]>>]
    ELSE [i \in 1..(n + 1) |-> IF i <= n THEN <<s[i]>> ELSE SubSeq(s, n + 1, Len(s))]

\* int(part) succeeds
IsInt(part) == Len(part) = 1 /\ IsNum(part[1])
IntOf(part) == ParseInt(part[1])

----------------------------------------------------------------------------
(* Job keys and callback payloads *)

_job_flow(flow) == <<"flow">> \o flow

_job_gate(block_id, next_flow) == <<"gate", ToString(block_id)>> \o next_flow

_job_action(action_id) == <<"action", ToString(action_id)>>

_job_resume(flow, start_pos) == <<"resume">> \o flow \o <<ToString(start_pos)>>

_gate_cb(user_id, block_id, next_flow) ==
    <<"gate", ToString(user_id), ToString(block_id)>> \o next_flow

_video_cb(user_id, block_id) == <<"video", ToString(user_id), ToString(block_id)>>

----------------------------------------------------------------------------
(* Store: content blocks *)

Block(id, flow, position, type, text, video, file_path, delay_seconds, is_active, gate_next_flow, gate_reminder_seconds) ==
    [id |-> id, flow |-> flow, position |-> position, type |-> type,
     text |-> text, video |-> video, file_path |-> file_path,
     circle_path |-> "", buttons_json |-> "",
     delay_seconds |-> delay_seconds, is_active |-> is_active,
     gate_next_flow |-> gate_next_flow,
     gate_reminder_seconds |-> gate_reminder_seconds]

\* the rows the authoring console has saved (save_block normalises delay and
\* reminder to values >= 0); in day1 the blocks were moved after their
\* creation, and block 4 is switched off; bonus is a flow no trigger, gate or
\* action leads to: a video, a block switched off, a text, a gate and a
\* text behind the gate
SeedBlocks ==
    { Block(1, W,  1, "text",  "hi", "", "",  0, 1, EmptyStr, 0),
      Block(2, W,  2, "text",  "",   "", "",  0, 1, D1, 3600),
      Block(6, D1, 1, "text",  "a",  "", "f", 0, 1, EmptyStr, 0),
      Block(4, D1, 2, "text",  "x",  "", "",  2, 0, D2, 60),
      Block(5, D1, 3, "text",  "b",  "", "",  0, 1, D2, 60),
      Block(3, D1, 4, "text",  "c",  "", "",  0, 1, EmptyStr, 0),
      Block(7, D2, 1, "video", "",   "url", "", 0, 1, EmptyStr, 0),
      Block(8, D2, 2, "text",  "d",  "", "",  0, 1, EmptyStr, 0),
      Block(9, D3, 1, "text",  "e",  "", "",  0, 1, EmptyStr, 0),
      Block(10, BN, 1, "video", "",  "url", "", 0, 1, EmptyStr, 0),
      Block(11, BN, 2, "text",  "p", "", "",  0, 0, EmptyStr, 0),
      Block(12, BN, 3, "text",  "q", "", "",  0, 1, EmptyStr, 0),
      Block(13, BN, 4, "text",  "r", "", "",  0, 1, D1, 0),
      Block(14, BN, 5, "text",  "s", "", "",  0, 1, EmptyStr, 0) }

\* variant: rows in the order of their creation
RECURSIVE OrderByCreation(_)
OrderByCreation(rows) ==
    IF rows = {} THEN <<>>
    ELSE LET first == CHOOSE r \in rows : \A q \in rows : r.id <= q.id
         IN <<first>> \o OrderByCreation(rows \ {first})

\* rows of a set ordered by position (ties by id, the insertion order)
RECURSIVE OrderByPosition(_)
OrderByPosition(rows) ==
    IF rows = {} THEN <<>>
    ELSE LET first == CHOOSE r \in rows : \A q \in rows :
                          \/ r.position < q.position
                          \/ (r.position = q.position /\ r.id <= q.id)
         IN <<first>> \o OrderByPosition(rows \ {first})

\* one row as the dict get_blocks / get_block build: delay is r[10] or 1.0
BlockDict(r) ==
    [id |-> r.id, flow |-> r.flow, position |-> r.position, type |-> r.type,
     text |-> r.text, video |-> r.video, file_path |-> r.file_path,
     circle |-> r.circle_path, buttons |-> r.buttons_json,
     is_active |-> r.is_active,
     delay |-> IF r.delay_seconds = 0 THEN 1 ELSE r.delay_seconds]

\* the gate columns of a row, which render_flow reads from the dict with
\* block.get("gate_next_flow") and block.get("gate_reminder_seconds")
GateFields(r) ==
    [gate_next_flow |-> r.gate_next_flow,
     gate_reminder_seconds |-> r.gate_reminder_seconds]

get_blocks(flow) ==
    LET rows == OrderByPosition({r \in blocks : r.flow = flow})
    IN [i \in 1..Len(rows) |-> BlockDict(rows[i]) @@ GateFields(rows[i])]

HasBlock(block_id) == \E r \in blocks : r.id = block_id
get_block(block_id) ==
    LET r == CHOOSE q \in blocks : q.id = block_id
    IN BlockDict(r) @@ GateFields(r)

----------------------------------------------------------------------------
(* Store: jobs *)

JobRow(user_id, flow, run_at_ts) ==
    [user_id |-> user_id, flow |-> flow, run_at_ts |-> run_at_ts, is_done |-> 0]

\* variant: a plain INSERT, without the conflict clause
insert_job(J, user_id, flow, run_at_ts) ==
    IF flow = EmptyStr THEN J ELSE Append(J, JobRow(user_id, flow, run_at_ts))

\* variant: the conflict clause sets run_at_ts only
upsert_keep_done(J, user_id, flow, run_at_ts) ==
    IF flow = EmptyStr THEN J
    ELSE IF \E i \in 1..Len(J) : J[i].user_id = user_id /\ J[i].flow = flow
         THEN [i \in 1..Len(J) |->
                  IF J[i].user_id = user_id /\ J[i].flow = flow
                  THEN [J[i] EXCEPT !.run_at_ts = run_at_ts]
                  ELSE J[i]]
         ELSE Append(J, JobRow(user_id, flow, run_at_ts))

\* INSERT .. ON CONFLICT(user_id, flow) DO UPDATE SET run_at_ts, is_done = 0
upsert_job(J, user_id, flow, run_at_ts) ==
    IF flow = EmptyStr THEN J
    ELSE IF \E i \in 1..Len(J) : J[i].user_id = user_id /\ J[i].flow = flow
         THEN [i \in 1..Len(J) |->
                  IF J[i].user_id = user_id /\ J[i].flow = flow
                  THEN [J[i] EXCEPT !.run_at_ts = run_at_ts, !.is_done = 0]
                  ELSE J[i]]
         ELSE Append(J, JobRow(user_id, flow, run_at_ts))

\* ids of the rows with is_done = 0 and run_at_ts <= t
DueIds(J, t) == {i \in 1..Len(J) : J[i].is_done = 0 /\ J[i].run_at_ts <= t}

RECURSIVE OrderByRunAt(_, _)
OrderByRunAt(J, ids) ==
    IF ids = {} THEN <<>>
    ELSE LET first == CHOOSE i \in ids : \A k \in ids :
                          \/ J[i].run_at_ts < J[k].run_at_ts
                          \/ (J[i].run_at_ts = J[k].run_at_ts /\ i <= k)
         IN <<first>> \o OrderByRunAt(J, ids \ {first})

\* SELECT id, user_id, flow, run_at_ts .. ORDER BY run_at_ts ASC LIMIT ?
fetch_due_jobs(J, t, limit) ==
    LET ordered == OrderByRunAt(J, DueIds(J, t))
        n == IF Len(ordered) < limit THEN Len(ordered) ELSE limit
    IN [i \in 1..n |-> [id |-> ordered[i],
                        user_id |-> J[ordered[i]].user_id,
                        flow |-> J[ordered[i]].flow,
                        run_at_ts |-> J[ordered[i]].run_at_ts]]

\* variant: the update changes no row
mark_nothing(J, job_id) == J

\* UPDATE jobs SET is_done = 1 WHERE id = ?
mark_job_done(J, job_id) ==
    [i \in 1..Len(J) |-> IF i = job_id THEN [J[i] EXCEPT !.is_done = 1] ELSE J[i]]

\* variant: the update marks every job of the user, whatever its key
mark_job_done_by_user(J, user_id, flow) ==
    [i \in 1..Len(J) |->
        IF J[i].user_id = user_id THEN [J[i] EXCEPT !.is_done = 1] ELSE J[i]]

\* UPDATE jobs SET is_done = 1 WHERE user_id = ? AND flow = ?
mark_job_done_by_user_flow(J, user_id, flow) ==
    [i \in 1..Len(J) |->
        IF J[i].user_id = user_id /\ J[i].flow = flow
        THEN [J[i] EXCEPT !.is_done = 1] ELSE J[i]]

is_gate_pressed(user_id, block_id) == <<user_id, block_id>> \in pressed

\* mark_gate_pressed: the record of (user, block), kept when it exists
mark_gate_pressed(P, user_id, block_id) == P \cup {<<user_id, block_id>>}

----------------------------------------------------------------------------
(* Store: modes, triggers, post-flow actions *)

Modes == {"off", "manual", "auto"}

\* get_flow_modes(): the rows of the mode table as a dict
get_flow_modes == modes

\* variant: a refresh that fails keeps the cache as it was
KeptModes == flowModes

NoModes == [f \in FlowNames |-> ""]

\* cache.get(flow) or "off"
ModeIn(cache, flow) ==
    IF flow \in DOMAIN cache /\ cache[flow] # "" THEN cache[flow] ELSE "off"

\* variant: every flow is taken to be in mode auto
AnyModeAuto(flow) == "auto"

\* _FLOW_MODES.get(flow) or "off"
_mode(flow) == ModeIn(flowModes, flow)

Trigger(flow, offset_seconds, is_active) ==
    [flow |-> flow, offset_seconds |-> offset_seconds, is_active |-> is_active]

\* ORDER BY offset_seconds ASC, flow ASC
RECURSIVE OrderTriggers(_)
OrderTriggers(rows) ==
    IF rows = {} THEN <<>>
    ELSE LET idx(f) == CHOOSE i \in 1..Len(FlowOrder) : FlowOrder[i] = f
             first == CHOOSE r \in rows : \A q \in rows :
                          \/ r.offset_seconds < q.offset_seconds
                          \/ (r.offset_seconds = q.offset_seconds
                              /\ idx(r.flow) <= idx(q.flow))
         IN <<first>> \o OrderTriggers(rows \ {first})

get_flow_triggers == OrderTriggers(triggers)

Action(id, after_flow, target_flow, delay_seconds, is_active) ==
    [id |-> id, after_flow |-> after_flow, target_flow |-> target_flow,
     delay_seconds |-> delay_seconds, is_active |-> is_active,
     action_type |-> "start_flow"]

RECURSIVE OrderById(_)
OrderById(rows) ==
    IF rows = {} THEN <<>>
    ELSE LET first == CHOOSE r \in rows : \A q \in rows : r.id <= q.id
         IN <<first>> \o OrderById(rows \ {first})

\* get_flow_actions(after_flow): the actions of one flow
get_flow_actions(after_flow) == OrderById({a \in actions : a.after_flow = after_flow})

\* get_flow_actions(None): all actions
get_all_flow_actions == OrderById(actions)

----------------------------------------------------------------------------
(* Initial state: the store as the console has filled it, the process just  *)
(* started (on_startup has refreshed the mode cache, jobs_loop is created). *)

SeedModes == [f \in FlowNames |->
                 IF f \in {W, D2} THEN "auto" ELSE "manual"]

\* flow_trigger_save keeps is_active = 1 exactly for mode auto
SeedTriggers ==
    { Trigger(W, 0, 1), Trigger(D2, 86400, 1), Trigger(D1, 0, 0) }

SeedActions == { Action(1, D2, D3, 0, 1) }

\* the store and channel calls whose failure is modelled; in one run at most
\* one kind of call fails, any number of times
FaultSites == {"get_flow_modes", "fetch_due_jobs", "get_flow_actions",
               "is_gate_pressed", "mark_job_done", "get_blocks",
               "gate_upsert_job", "mark_gate_pressed",
               "mark_job_done_by_user_flow", "send"}

FaultSets == {{}} \cup {{site} : site \in FaultSites}

\* a task created by asyncio.create_task / a handler about to call render_flow
Task(kind, uid, jid, key, pc, flow, start) ==
    [kind |-> kind, uid |-> uid, jid |-> jid, key |-> key, pc |-> pc,
     flow |-> flow, start |-> start, idx |-> 0, wake |-> 0, bl |-> <<>>,
     out |-> "", menu_attached_once |-> FALSE, block_id |-> 0,
     next_flow |-> EmptyStr, store_mode |-> "", changed_at |-> 0,
     called |-> 0, last |-> 0]

\* a message delivered to a chat: the task whose call sent it (0 for a
\* handler), what it is, the block it comes from, the payload of its control,
\* and the time of the send
Msg(call, kind, blk, cb) ==
    [call |-> call, kind |-> kind, blk |-> blk, cb |-> cb, at |-> now]

\* the process has just started and nobody has written to the bot
InitFresh ==
    /\ now = StartTime
    /\ jobs = <<>>
    /\ sched = [pc |-> "sleep", due |-> <<>>, missed |-> {}, last_modes_refresh |-> 0,
                wake |-> StartTime]
    /\ tasks = <<>>
    /\ sent = [u \in Users |-> <<>>]
    /\ upserts = {}
    /\ pressed = {}
    /\ acks = {}

\* the tasks, the chat of user 1 and the upsert history once welcome is rendered
WelcomedTask ==
    [Task("job", 1, 1, <<"flow", "welcome">>, "done", W, 0) EXCEPT
        !.idx = 2, !.wake = StartTime + 2, !.out = "gate",
        !.menu_attached_once = TRUE, !.store_mode = "auto",
        !.called = StartTime, !.last = 2, !.bl = get_blocks(W)]

WelcomedChat ==
    << [Msg(0, "start_menu", 0, EmptyStr) EXCEPT !.at = StartTime],
       [Msg(1, "welcome_menu", 1, EmptyStr) EXCEPT !.at = StartTime],
       [Msg(1, "gate_prompt", 2, <<"gate", "1", "2", "day1">>)
           EXCEPT !.at = StartTime + 2] >>

WelcomedUpserts ==
    { [user_id |-> 1, flow |-> <<"flow", "welcome">>,
       run_at_ts |-> StartTime, n |-> 1, prev |-> StartTime,
       during |-> 0],
      [user_id |-> 1, flow |-> <<"flow", "day2">>,
       run_at_ts |-> StartTime + 86400, n |-> 1, prev |-> StartTime + 86400,
       during |-> 0],
      [user_id |-> 1, flow |-> <<"gate", "2", "day1">>,
       run_at_ts |-> StartTime + 2 + 3600, n |-> 1,
       prev |-> StartTime + 2 + 3600,
       during |-> 0] }

\* two seconds later: user 1 has sent /start at StartTime, the scheduler has
\* rendered welcome up to its gate and marked the job done
InitWelcomed ==
    /\ now = StartTime + 2
    /\ jobs = << [user_id |-> 1, flow |-> <<"flow", "welcome">>,
                  run_at_ts |-> StartTime, is_done |-> 1],
                 [user_id |-> 1, flow |-> <<"flow", "day2">>,
                  run_at_ts |-> StartTime + 86400, is_done |-> 0],
                 [user_id |-> 1, flow |-> <<"gate", "2", "day1">>,
                  run_at_ts |-> StartTime + 2 + 3600, is_done |-> 0] >>
    /\ sched = [pc |-> "sleep", due |-> <<>>, missed |-> {}, last_modes_refresh |-> StartTime,
                wake |-> StartTime + 3]
    /\ tasks = << WelcomedTask >>
    /\ sent = [u \in Users |-> IF u = 1 THEN WelcomedChat ELSE <<>>]
    /\ upserts = WelcomedUpserts
    /\ pressed = {}
    /\ acks = {}

\* two more seconds later: user 1 has pressed the gate of welcome at once and
\* day1 has been rendered up to its gate
InitDay1 ==
    /\ now = StartTime + 4
    /\ jobs = << [user_id |-> 1, flow |-> <<"flow", "welcome">>,
                  run_at_ts |-> StartTime, is_done |-> 1],
                 [user_id |-> 1, flow |-> <<"flow", "day2">>,
                  run_at_ts |-> StartTime + 86400, is_done |-> 0],
                 [user_id |-> 1, flow |-> <<"gate", "2", "day1">>,
                  run_at_ts |-> StartTime + 2 + 3600, is_done |-> 1],
                 [user_id |-> 1, flow |-> <<"gate", "5", "day2">>,
                  run_at_ts |-> StartTime + 4 + 60, is_done |-> 0] >>
    /\ sched = [pc |-> "sleep", due |-> <<>>, missed |-> {}, last_modes_refresh |-> StartTime,
                wake |-> StartTime + 5]
    /\ tasks = << WelcomedTask,
                  [Task("cb_gate", 1, 0, <<"gate", "1", "2", "day1">>, "done",
                        D1, 0) EXCEPT
                      !.idx = 3, !.wake = StartTime + 4, !.out = "gate",
                      !.called = StartTime + 2, !.last = 5,
                      !.bl = get_blocks(D1)] >>
    /\ sent = [u \in Users |->
                 IF u = 1
                 THEN WelcomedChat \o
                      << [Msg(2, "text", 6, EmptyStr)
                             EXCEPT !.at = StartTime + 2],
                         [Msg(2, "attachment", 6, EmptyStr)
                             EXCEPT !.at = StartTime + 2],
                         [Msg(2, "text", 5, EmptyStr)
                             EXCEPT !.at = StartTime + 3],
                         Msg(2, "gate_prompt", 5, <<"gate", "1", "5", "day2">>) >>
                 ELSE <<>>]
    /\ upserts = WelcomedUpserts
                 \cup { [user_id |-> 1, flow |-> <<"gate", "5", "day2">>,
                         run_at_ts |-> StartTime + 4 + 60, n |-> 1,
                         prev |-> StartTime + 4 + 60,
       during |-> 0] }
    /\ pressed = {<<1, 2>>}
    /\ acks = {[by |-> 1, data |-> <<"gate", "1", "2", "day1">>]}

\* no job key is followed from its producer to the scheduler
NoWire == [pc |-> "idle", kind |-> "", flow |-> EmptyStr, n |-> 0,
           key |-> EmptyStr,
           job |-> Task("job", 1, 0, EmptyStr, "sem", EmptyStr, 0)]

\* the value _safe_call returns when every attempt failed
None == 0

\* no _safe_call is followed attempt by attempt
NoCall == [pc |-> "idle", attempt |-> 0, calls |-> 0, outcomes |-> <<>>,
           last_exc |-> "", result |-> None]

InitStore ==
    /\ ticks = 0
    /\ events = 0
    /\ blocks = SeedBlocks
    /\ modes = SeedModes
    /\ changed = [f \in FlowNames |-> 0]
    /\ triggers = SeedTriggers
    /\ actions = SeedActions
    /\ unlocked = {}
    /\ flowModes = SeedModes
    /\ locks = [u \in Users |-> 0]
    /\ running = {}

\* two more seconds later: user 1 has pressed the gate of day1 and the watch
\* control of day2, the resume job has rendered the rest of day2 and the job
\* of the action after day2 is pending
Day2Tasks ==
    << WelcomedTask,
       [Task("cb_gate", 1, 0, <<"gate", "1", "2", "day1">>, "done", D1, 0) EXCEPT
           !.idx = 3, !.wake = StartTime + 4, !.out = "gate",
           !.called = StartTime + 2, !.last = 5, !.bl = get_blocks(D1)],
       [Task("cb_gate", 1, 0, <<"gate", "1", "5", "day2">>, "done", D2, 0) EXCEPT
           !.idx = 1, !.wake = StartTime + 4, !.out = "video",
           !.called = StartTime + 4, !.last = 7, !.bl = get_blocks(D2)],
       [Task("job", 1, 5, <<"resume", "day2", "2">>, "done", D2, 2) EXCEPT
           !.idx = 3, !.wake = StartTime + 6, !.out = "end",
           !.called = StartTime + 5, !.last = 8, !.bl = get_blocks(D2)] >>

Day2Chat ==
    WelcomedChat \o
    << [Msg(2, "text", 6, EmptyStr) EXCEPT !.at = StartTime + 2],
       [Msg(2, "attachment", 6, EmptyStr) EXCEPT !.at = StartTime + 2],
       [Msg(2, "text", 5, EmptyStr) EXCEPT !.at = StartTime + 3],
       [Msg(2, "gate_prompt", 5, <<"gate", "1", "5", "day2">>)
           EXCEPT !.at = StartTime + 4],
       [Msg(3, "video_gate", 7, <<"video", "1", "7">>) EXCEPT !.at = StartTime + 4],
       [Msg(0, "video_link", 7, EmptyStr) EXCEPT !.at = StartTime + 4],
       [Msg(4, "text", 8, EmptyStr) EXCEPT !.at = StartTime + 5] >>

Day2Jobs ==
    << [user_id |-> 1, flow |-> <<"flow", "welcome">>,
        run_at_ts |-> StartTime, is_done |-> 1],
       [user_id |-> 1, flow |-> <<"flow", "day2">>,
        run_at_ts |-> StartTime + 86400, is_done |-> 0],
       [user_id |-> 1, flow |-> <<"gate", "2", "day1">>,
        run_at_ts |-> StartTime + 2 + 3600, is_done |-> 1],
       [user_id |-> 1, flow |-> <<"gate", "5", "day2">>,
        run_at_ts |-> StartTime + 4 + 60, is_done |-> 1],
       [user_id |-> 1, flow |-> <<"resume", "day2", "2">>,
        run_at_ts |-> StartTime + 5, is_done |-> 1],
       [user_id |-> 1, flow |-> <<"action", "1">>,
        run_at_ts |-> StartTime + 6, is_done |-> 0] >>

Day2Upserts ==
    WelcomedUpserts
    \cup { [user_id |-> 1, flow |-> <<"gate", "5", "day2">>,
            run_at_ts |-> StartTime + 4 + 60, n |-> 1, prev |-> StartTime + 4 + 60,
       during |-> 0],
           [user_id |-> 1, flow |-> <<"resume", "day2", "2">>,
            run_at_ts |-> StartTime + 5, n |-> 1, prev |-> StartTime + 5,
       during |-> 0],
           [user_id |-> 1, flow |-> <<"action", "1">>,
            run_at_ts |-> StartTime + 6, n |-> 1, prev |-> StartTime + 6,
       during |-> 0] }

InitDay2 ==
    /\ now = StartTime + 6
    /\ jobs = Day2Jobs
    /\ sched = [pc |-> "sleep", due |-> <<>>, missed |-> {}, last_modes_refresh |-> StartTime,
                wake |-> StartTime + 7]
    /\ tasks = Day2Tasks
    /\ sent = [u \in Users |-> IF u = 1 THEN Day2Chat ELSE <<>>]
    /\ upserts = Day2Upserts
    /\ pressed = {<<1, 2>>, <<1, 5>>}
    /\ acks = { [by |-> 1, data |-> <<"gate", "1", "2", "day1">>],
                [by |-> 1, data |-> <<"gate", "1", "5", "day2">>],
                [by |-> 1, data |-> <<"video", "1", "7">>] }

\* user 1 has started, welcome is rendered, and the job table holds a
\* broadcast that has just become due: day3 to everybody or to user 2,
\* every 5 seconds, or bonus once to the user of the job
BroadcastKeys ==
    { <<"broadcast", "day3", "all", "5">>,
      <<"broadcast", "day3", "2", "5">>,
      <<"broadcast", "bonus", "", "0">> }

InitBroadcast ==
    /\ now = StartTime + 2
    /\ \E key \in BroadcastKeys :
          jobs = << [user_id |-> 1, flow |-> <<"flow", "welcome">>,
                     run_at_ts |-> StartTime, is_done |-> 1],
                    [user_id |-> 1, flow |-> <<"flow", "day2">>,
                     run_at_ts |-> StartTime + 86400, is_done |-> 0],
                    [user_id |-> 1, flow |-> <<"gate", "2", "day1">>,
                     run_at_ts |-> StartTime + 2 + 3600, is_done |-> 0],
                    [user_id |-> 1, flow |-> key,
                     run_at_ts |-> StartTime + 2, is_done |-> 0] >>
    /\ sched = [pc |-> "sleep", due |-> <<>>, missed |-> {}, last_modes_refresh |-> StartTime,
                wake |-> StartTime + 2]
    /\ tasks = << WelcomedTask >>
    /\ sent = [u \in Users |-> IF u = 1 THEN WelcomedChat ELSE <<>>]
    /\ upserts = WelcomedUpserts
    /\ pressed = {}
    /\ acks = {}

\* no call fails
Init ==
    /\ faulty = {}
    /\ InitStore
    /\ safe = NoCall
    /\ wire = NoWire
    /\ InitFresh \/ InitWelcomed \/ InitDay1

\* one kind of call may fail, or none
InitFaults ==
    /\ faulty \in FaultSets
    /\ InitStore
    /\ safe = NoCall
    /\ wire = NoWire
    /\ InitFresh \/ InitWelcomed

----------------------------------------------------------------------------
(* Failures of the store and of the channel *)

\* the outcomes a call that can fail may have: TRUE = it succeeds
Outcomes(site) == IF site \in faulty THEN {TRUE, FALSE} ELSE {TRUE}

(* The job table together with the history of the upsert calls *)

St(J, H) == [j |-> J, h |-> H]

\* the dispatch task that is executing the job of (user, key): it holds a
\* slot of the semaphore and has not reached the end of its finally clause
\* (0 = none)
Executing(user_id, flow) ==
    LET S == {i \in 1..Len(tasks) : /\ tasks[i].kind = "job"
                                    /\ tasks[i].uid = user_id
                                    /\ tasks[i].key = flow
                                    /\ tasks[i].pc \notin {"sem", "done"}}
    IN IF S = {} THEN 0 ELSE CHOOSE i \in S : \A j \in S : j <= i

\* upsert_job, and the call remembered: the run_at of the last call for
\* (user, key), the run_at of the call before it (of the call itself when it
\* was the first), the number of calls, counted up to 2, and the dispatch
\* task that was executing the job of that key at the call
Upsert(st, user_id, flow, run_at_ts) ==
    LET old == {h \in st.h : h.user_id = user_id /\ h.flow = flow}
        n == IF old = {} THEN 1 ELSE 2
        prev == IF old = {} THEN run_at_ts
                ELSE (CHOOSE h \in old : TRUE).run_at_ts
    IN IF flow = EmptyStr THEN st
       ELSE St(upsert_job(st.j, user_id, flow, run_at_ts),
               (st.h \ old) \cup {[user_id |-> user_id, flow |-> flow,
                                   run_at_ts |-> run_at_ts, n |-> n,
                                   prev |-> prev,
                                   during |-> Executing(user_id, flow)]})

(* Messages delivered to a chat *)

\* the messages of msgs that arrive, when the one at index lost (0 = none)
\* is given up by _safe_call after its retries
Delivered(msgs, lost) ==
    IF lost = 0 THEN msgs
    ELSE SubSeq(msgs, 1, lost - 1) \o SubSeq(msgs, lost + 1, Len(msgs))

LostChoices(msgs) ==
    IF "send" \in faulty THEN 0..Len(msgs) ELSE {0}

----------------------------------------------------------------------------
(* The clock *)

\* a task that can take its next step now
Runnable(t) ==
    \/ t.pc \in {"remind", "repeat", "mark"}
    \/ t.pc = "sem" /\ Cardinality({i \in 1..Len(tasks) :
                           tasks[i].kind = "job"
                           /\ tasks[i].pc \notin {"sem", "done"}}) < JOBS_CONCURRENCY
    \/ t.pc = "lock" /\ locks[t.uid] = 0
    \/ t.pc \in {"block", "gate"} /\ now >= t.wake

\* the loop or a task has a step to take at the present second
Busy ==
    \/ sched.pc # "sleep"
    \/ now >= sched.wake
    \/ \E i \in 1..Len(tasks) : Runnable(tasks[i])

\* the times something is waiting for: pending jobs and sleeping tasks
WakeTimes ==
    {jobs[i].run_at_ts : i \in {k \in 1..Len(jobs) : jobs[k].is_done = 0}}
    \cup {tasks[i].wake : i \in {k \in 1..Len(tasks) :
                                    tasks[k].pc \in {"block", "gate"}}}

\* the next time something waits for: a pending job, a sleeping task, the
\* next poll when a job is already due; now + 1 when there is none
NextWake ==
    LET later == {w \in WakeTimes : w > now}
                 \cup (IF DueIds(jobs, now) # {} THEN {sched.wake} ELSE {})
    IN IF later = {} THEN now + 1
       ELSE CHOOSE w \in later : \A v \in later : w <= v

\* the second before a flow job becomes due, when the next thing waited for
\* is such a job: the last time the console can change what the job will find
Eve ==
    IF NextWake - 1 > now
       /\ \E k \in 1..Len(jobs) : /\ jobs[k].is_done = 0
                                   /\ jobs[k].run_at_ts = NextWake
                                   /\ StartsWith(jobs[k].flow, "flow")
    THEN {NextWake - 1} ELSE {}

\* The clock counts whole seconds and the steps between two awaits take far
\* less: a second passes when every coroutine is asleep or waiting.  The
\* clock moves on to the next time something waits for, or to the second
\* before it when that is a flow job (the polls in between find nothing
\* due); inbound events arrive at these times.
Tick ==
    /\ ticks < MaxTicks
    /\ ~Busy
    /\ now' \in {NextWake} \cup Eve
    /\ ticks' = ticks + 1
    /\ UNCHANGED <<events, faulty, blocks, changed, modes, triggers, actions, jobs,
                   pressed, unlocked, flowModes, locks, running, sched, tasks,
                   sent, upserts, acks, safe, wire>>

----------------------------------------------------------------------------
(* jobs_loop *)

\* variant: the loop never reloads the cache
NeverStale == FALSE

Stale == now - sched.last_modes_refresh >= FLOW_MODES_REFRESH_SECONDS

\* refresh_flow_modes at the head of a tick
LoopRefresh ==
    /\ sched.pc = "sleep" /\ now >= sched.wake /\ Stale
    /\ \E ok \in Outcomes("get_flow_modes") :
          /\ flowModes' = IF ok THEN get_flow_modes ELSE NoModes
          /\ faulty' = faulty
    /\ sched' = [sched EXCEPT !.pc = "fetch", !.last_modes_refresh = now]
    /\ UNCHANGED <<now, ticks, events, blocks, changed, modes, triggers, actions, jobs,
                   pressed, unlocked, locks, running, tasks, sent, upserts, acks,
                   safe, wire>>

\* variant: the loop does not look at _RUNNING_JOBS
RECURSIVE DispatchAll(_, _, _)
DispatchAll(due, run, ts) ==
    IF due = <<>> THEN [running |-> run, tasks |-> ts]
    ELSE LET job == Head(due)
         IN DispatchAll(Tail(due), run \cup {job.id},
                        Append(ts, Task("job", job.user_id, job.id, job.flow,
                                        "sem", EmptyStr, 0)))

\* the for loop over the fetched jobs: the ids to dispatch, in order
RECURSIVE Dispatch(_, _, _)
Dispatch(due, run, ts) ==
    IF due = <<>> THEN [running |-> run, tasks |-> ts]
    ELSE LET job == Head(due)
         IN IF job.id \in run
            THEN Dispatch(Tail(due), run, ts)
            ELSE Dispatch(Tail(due), run \cup {job.id},
                          Append(ts, Task("job", job.user_id, job.id, job.flow,
                                          "sem", EmptyStr, 0)))

\* variant: a fetch that raises ends the scheduler loop (no except around
\* the tick), so nothing is left for a later tick
MissedForGood == {}

\* the jobs a fetch that raises leaves behind: pending, due, not in flight
Missed == DueIds(jobs, now) \ running

\* due = await fetch_due_jobs(50): the query runs on the store; when it
\* raises, the except of the loop logs and the loop sleeps (sched.missed is
\* the history of what the failed fetches left behind)
LoopFetch ==
    /\ \/ sched.pc = "fetch"
       \/ sched.pc = "sleep" /\ now >= sched.wake /\ ~Stale
    /\ \E ok \in Outcomes("fetch_due_jobs") :
          /\ faulty' = faulty
          /\ sched' = IF ok /\ fetch_due_jobs(jobs, now, FETCH_LIMIT) # <<>>
                      THEN [sched EXCEPT !.pc = "loop",
                                         !.due = fetch_due_jobs(jobs, now, FETCH_LIMIT)]
                      ELSE [sched EXCEPT !.pc = "sleep", !.wake = now + 1,
                                         !.missed = IF ok THEN @
                                                    ELSE @ \cup Missed]
    /\ UNCHANGED <<now, ticks, events, blocks, changed, modes, triggers, actions, jobs,
                   pressed, unlocked, flowModes, locks, running, tasks, sent,
                   upserts, acks, safe, wire>>

\* the result has arrived: skip in-flight ids, create a task for the others
LoopDispatch ==
    /\ sched.pc = "loop"
    /\ LET d == Dispatch(sched.due, running, tasks)
       IN /\ running' = d.running
          /\ tasks' = d.tasks
    /\ sched' = [sched EXCEPT !.pc = "sleep", !.due = <<>>, !.wake = now + 1]
    /\ UNCHANGED <<now, ticks, events, faulty, blocks, changed, modes, triggers, actions,
                   jobs, pressed, unlocked, flowModes, locks, sent, upserts, acks,
                   safe, wire>>

----------------------------------------------------------------------------
(* Helpers of the task steps *)

TaskIds == 1..Len(tasks)

\* where a task goes on when its render_flow call returns: a dispatch to the
\* mark of its job (a broadcast first to its re-enqueue), a handler or a
\* fan-out task to its end
Ret(t) ==
    IF t.kind # "job" THEN "done"
    ELSE IF StartsWith(t.key, "broadcast") THEN "repeat"
    ELSE "mark"

\* the call render_flow(uid, flow, start_position) up to the lock
BeginRender(t, flow, start) ==
    IF flow = EmptyStr
    THEN [t EXCEPT !.pc = Ret(t)]
    ELSE [t EXCEPT !.pc = "lock", !.flow = flow, !.start = start,
                   !.called = now]

\* variant: the semaphore never makes a dispatch wait
SemNeverFull == TRUE

\* _JOB_SEM: the job tasks inside "async with _JOB_SEM"
SemHeld == Cardinality({i \in TaskIds : tasks[i].kind = "job"
                                        /\ tasks[i].pc \notin {"sem", "done"}})

SemAvailable == SemHeld < JOBS_CONCURRENCY

\* variant without mutual exclusion: the lock is never seen as held
LockNeverHeld(uid) == TRUE

\* variant: one lock for all users
OneLockForAll(uid) == \A u \in Users : locks[u] = 0

\* _lock(uid) is free
LockAvailable(uid) == locks[uid] = 0

\* variant: a return inside 'async with _lock(chat_id)' keeps the lock
KeepLock(L, uid) == L

\* the exit of 'async with _lock(chat_id)': the lock of the user is free
Release(L, uid) == [L EXCEPT ![uid] = 0]

\* build_buttons_kb: a keyboard only for a valid, non-empty button list
HasKb(b) == b.buttons = "ok"

----------------------------------------------------------------------------
(* _execute_job_and_mark_done *)

\* variant: the job renders the target its action had in the table as it was
\* when the process started, before any edit
ScheduledTarget(acts, aid) ==
    LET hits == {a \in SeedActions : a.id = aid /\ a.is_active = 1}
    IN IF hits = {} THEN EmptyStr ELSE (CHOOSE a \in hits : TRUE).target_flow

\* the target flow an action job resolves when it fires
ActionTarget(acts, aid) ==
    LET hits == {k \in 1..Len(acts) : acts[k].id = aid /\ acts[k].is_active = 1}
    IN IF hits = {} THEN EmptyStr
       ELSE acts[CHOOSE k \in hits : \A m \in hits : k <= m].target_flow

\* variant: the reminder branch does not look at the gate-pressed record
NeverSuppressed(uid, block_id) == FALSE

\* if block_id > 0 and await is_gate_pressed(uid, block_id): pass
GateSuppressed(uid, block_id) == block_id > 0 /\ is_gate_pressed(uid, block_id)

\* get_users: the users who have sent /start, the last seen first
RECURSIVE OrderByLastSeen(_)
OrderByLastSeen(us) ==
    IF us = {} THEN <<>>
    ELSE LET seen(u) == sent[u][CHOOSE n \in 1..Len(sent[u]) :
                                    /\ sent[u][n].kind = "start_menu"
                                    /\ \A m \in 1..Len(sent[u]) :
                                          sent[u][m].kind = "start_menu" => m <= n].at
             first == CHOOSE u \in us : \A v \in us :
                          \/ seen(u) > seen(v)
                          \/ (seen(u) = seen(v) /\ u <= v)
         IN <<first>> \o OrderByLastSeen(us \ {first})

get_users ==
    OrderByLastSeen({u \in Users : \E n \in 1..Len(sent[u]) :
                                      sent[u][n].kind = "start_menu"})

\* the fields of a broadcast key: job_key.split(":")
BroadcastFlow(key) == IF Len(key) >= 2 THEN <<key[2]>> ELSE EmptyStr
BroadcastAudience(key) == IF Len(key) >= 3 THEN key[3] ELSE ""
BroadcastRepeat(key) ==
    IF Len(key) >= 4 /\ IsNum(key[4]) THEN ParseInt(key[4]) ELSE 0

\* _run_broadcast_job up to its first render_flow call or, for the audience
\* "all", up to the re-enqueue
BroadcastBody(t) ==
    LET flow == BroadcastFlow(t.key)
        audience == BroadcastAudience(t.key)
    IN IF flow = EmptyStr THEN [t EXCEPT !.pc = "mark"]
       ELSE IF audience = "all" THEN [t EXCEPT !.pc = "repeat"]
       ELSE IF IsNum(audience)
       THEN IF ParseInt(audience) > 0 /\ ParseInt(audience) \in Users
            THEN [BeginRender(t, flow, 0) EXCEPT !.uid = ParseInt(audience)]
            ELSE [t EXCEPT !.pc = "repeat"]
       ELSE BeginRender(t, flow, 0)

\* the tasks a broadcast to "all" creates: one render_flow per known user,
\* none of them awaited
Fanout(t, db_ok) ==
    LET flow == BroadcastFlow(t.key)
        users == IF db_ok THEN get_users ELSE <<>>
    IN IF StartsWith(t.key, "broadcast") /\ flow # EmptyStr
          /\ BroadcastAudience(t.key) = "all"
       THEN [n \in 1..Len(users) |->
                BeginRender(Task("fanout", users[n], 0, t.key, "new", EmptyStr, 0),
                            flow, 0)]
       ELSE <<>>

\* the dispatch on the job key, up to the first await that can yield;
\* db_ok tells whether the store call of the branch (if any) succeeds
JobBody(t, db_ok) ==
    LET key == t.key IN
    IF StartsWith(key, "flow") THEN
        LET flow == Tail(key) IN
        IF flow # EmptyStr /\ _mode(flow) = "auto"
        THEN [BeginRender(t, flow, 0) EXCEPT
                 !.store_mode = IF flow \in FlowNames THEN modes[flow] ELSE "",
                 !.changed_at = IF flow \in FlowNames THEN changed[flow] ELSE 0]
        ELSE [t EXCEPT !.pc = "mark"]
    ELSE IF StartsWith(key, "resume") THEN
        LET parts == Split(key, 2) IN
        IF Len(parts) = 3
        THEN LET flow == parts[2]
                 pos == IF IsInt(parts[3]) THEN IntOf(parts[3]) ELSE 0
             IN IF flow # EmptyStr /\ pos > 0
                THEN BeginRender(t, flow, pos)
                ELSE [t EXCEPT !.pc = "mark"]
        ELSE [t EXCEPT !.pc = "mark"]
    ELSE IF StartsWith(key, "action") THEN
        LET aid_s == Tail(key)
            aid == IF IsInt(aid_s) THEN IntOf(aid_s) ELSE 0
            acts == IF db_ok THEN get_all_flow_actions ELSE <<>>
            target == IF aid > 0 THEN ActionTarget(acts, aid) ELSE EmptyStr
        IN IF target # EmptyStr
           THEN BeginRender(t, target, 0)
           ELSE [t EXCEPT !.pc = "mark"]
    ELSE IF StartsWith(key, "gate") THEN
        LET parts == Split(key, 2) IN
        IF Len(parts) = 3
        THEN IF ~IsInt(parts[2])
             THEN [t EXCEPT !.pc = "mark", !.out = "raised"]
             ELSE LET block_id == IntOf(parts[2])
                      next_flow == parts[3]
                  IN IF block_id > 0 /\ ~db_ok
                     THEN [t EXCEPT !.pc = "mark", !.out = "raised"]
                     ELSE IF GateSuppressed(t.uid, block_id)
                     THEN [t EXCEPT !.pc = "mark", !.out = "pressed"]
                     ELSE [t EXCEPT !.pc = "remind", !.block_id = block_id,
                                    !.next_flow = next_flow]
        ELSE [t EXCEPT !.pc = "mark"]
    ELSE IF StartsWith(key, "broadcast") THEN BroadcastBody(t)
    ELSE [t EXCEPT !.pc = "mark"]

\* whether the branch of the key makes a store call before its first send
BodyUsesStore(key) ==
    \/ StartsWith(key, "action")
    \/ StartsWith(key, "gate") /\ Len(key) >= 3 /\ IsNum(key[2])
                               /\ ParseInt(key[2]) > 0
    \/ StartsWith(key, "broadcast") /\ BroadcastAudience(key) = "all"

BodySite(key) == IF StartsWith(key, "action") THEN "get_flow_actions"
                 ELSE IF StartsWith(key, "broadcast") THEN "get_users"
                 ELSE "is_gate_pressed"

\* async with _JOB_SEM: .. the branch of the key
JobStart(i) ==
    /\ tasks[i].kind = "job" /\ tasks[i].pc = "sem"
    /\ SemAvailable
    /\ \E db_ok \in (IF BodyUsesStore(tasks[i].key) THEN Outcomes(BodySite(tasks[i].key)) ELSE {TRUE}) :
          /\ tasks' = [tasks EXCEPT ![i] = JobBody(tasks[i], db_ok)]
                       \o Fanout(tasks[i], db_ok)
          /\ faulty' = faulty
    /\ UNCHANGED <<now, ticks, events, blocks, changed, modes, triggers, actions, jobs,
                   pressed, unlocked, flowModes, locks, running, sched, sent,
                   upserts, acks, safe, wire>>

\* the gate reminder: get_block, then send_message(gate_reminder)
JobRemind(i) ==
    /\ tasks[i].kind = "job" /\ tasks[i].pc = "remind"
    /\ LET t == tasks[i]
           msgs == <<Msg(i, "gate_reminder", t.block_id,
                         _gate_cb(t.uid, t.block_id, t.next_flow))>>
       IN \E lost \in LostChoices(msgs) :
             /\ sent' = [sent EXCEPT ![t.uid] = @ \o Delivered(msgs, lost)]
             /\ faulty' = faulty
    /\ tasks' = [tasks EXCEPT ![i].pc = "mark"]
    /\ UNCHANGED <<now, ticks, events, blocks, changed, modes, triggers, actions, jobs,
                   pressed, unlocked, flowModes, locks, running, sched, upserts, acks,
                   safe, wire>>

\* the end of _run_broadcast_job: if repeat > 0, upsert_job(current_uid,
\* job_key, now + repeat), current_uid being the user of the job
JobRepeat(i) ==
    /\ tasks[i].kind = "job" /\ tasks[i].pc = "repeat"
    /\ LET t == tasks[i]
           repeat == BroadcastRepeat(t.key)
           st == IF repeat > 0
                 THEN Upsert(St(jobs, upserts), jobs[t.jid].user_id, t.key,
                             now + repeat)
                 ELSE St(jobs, upserts)
       IN jobs' = st.j /\ upserts' = st.h
    /\ tasks' = [tasks EXCEPT ![i].pc = "mark"]
    /\ UNCHANGED <<now, ticks, events, faulty, blocks, changed, modes, triggers,
                   actions, pressed, unlocked, flowModes, locks, running, sched,
                   sent, acks, safe, wire>>

\* variant: the id is discarded only after a successful mark
DiscardIfMarked(run, jid, marked) == IF marked THEN run \ {jid} ELSE run

\* the inner finally: _RUNNING_JOBS.discard(jid), whether the mark succeeded
\* or raised
Discard(run, jid, marked) == run \ {jid}

\* finally: try: await mark_job_done(jid) finally: _RUNNING_JOBS.discard(jid)
JobMark(i) ==
    /\ tasks[i].kind = "job" /\ tasks[i].pc = "mark"
    /\ \E ok \in Outcomes("mark_job_done") :
          /\ jobs' = IF ok THEN mark_job_done(jobs, tasks[i].jid) ELSE jobs
          /\ faulty' = faulty
          /\ running' = Discard(running, tasks[i].jid, ok)
    /\ tasks' = [tasks EXCEPT ![i].pc = "done"]
    /\ UNCHANGED <<now, ticks, events, blocks, changed, modes, triggers, actions,
                   pressed, unlocked, flowModes, locks, sched, sent, upserts, acks,
                   safe, wire>>

----------------------------------------------------------------------------
(* render_flow *)

\* async with _lock(chat_id): blocks = await get_blocks(flow)
RenderBegin(i) ==
    /\ tasks[i].pc = "lock"
    /\ LockAvailable(tasks[i].uid)
    /\ \E ok \in Outcomes("get_blocks") :
          /\ faulty' = faulty
          /\ IF ok
             THEN /\ locks' = [locks EXCEPT ![tasks[i].uid] = i]
                  /\ tasks' = [tasks EXCEPT ![i].pc = "block",
                                            ![i].bl = get_blocks(tasks[i].flow),
                                            ![i].idx = 1,
                                            ![i].wake = now]
             ELSE /\ locks' = locks
                  /\ tasks' = [tasks EXCEPT ![i].pc = Ret(tasks[i]),
                                            ![i].out = "loadfail"]
    /\ UNCHANGED <<now, ticks, events, blocks, changed, modes, triggers, actions, jobs,
                   pressed, unlocked, flowModes, running, sched, sent, upserts, acks,
                   safe, wire>>

\* variant: the loop does not look at start_position
SkippedInactive(t, b) == b.is_active = 0

\* the loop's two "continue" tests: is_active, and position against
\* start_position
Skipped(t, b) ==
    \/ b.is_active = 0
    \/ t.start # 0 /\ b.position < t.start

\* index of the next block the loop body runs for, 0 when the list is exhausted
NextIdx(t) ==
    LET ks == {k \in t.idx..Len(t.bl) : ~Skipped(t, t.bl[k])}
    IN IF ks = {} THEN 0 ELSE CHOOSE k \in ks : \A m \in ks : k <= m

\* attach the reply menu to the first text message of welcome
AttachReplyMenu(t, b) ==
    /\ t.flow = W /\ ~t.menu_attached_once
    /\ b.text # "" /\ b.type \in {"text", "", "buttons"}

\* 1) content: the messages the block's type sends (video is apart)
ContentMsgs(i, t, b) ==
    IF b.type = "circle" /\ b.circle # ""
    THEN <<Msg(i, "circle", b.id, EmptyStr)>>
    ELSE IF b.type = "buttons"
    THEN <<Msg(i, IF HasKb(b) THEN "buttons"
                  ELSE IF b.buttons # "" THEN "buttons_bad_json"
                  ELSE "buttons_empty", b.id, EmptyStr)>>
    ELSE IF b.text = "" THEN <<>>
    ELSE IF AttachReplyMenu(t, b)
    THEN <<Msg(i, "welcome_menu", b.id, EmptyStr)>>
         \o (IF HasKb(b) THEN <<Msg(i, "welcome_inline_kb", b.id, EmptyStr)>>
             ELSE <<>>)
    ELSE <<Msg(i, "text", b.id, EmptyStr)>>

\* 2) attachment
AttachmentMsgs(i, b) ==
    IF b.file_path # "" THEN <<Msg(i, "attachment", b.id, EmptyStr)>> ELSE <<>>

\* variant: the video block sends the link along with the watch prompt
VideoGateAndLink(i, t, b) ==
    IF b.id = 0 \/ b.video = "" THEN <<>>
    ELSE <<Msg(i, "video_gate", b.id, _video_cb(t.uid, b.id)),
           Msg(i, "video_link", b.id, EmptyStr)>>

\* _send_video_gate: the watch prompt, nothing when the video is not filled in
VideoGateMsgs(i, t, b) ==
    IF b.id = 0 \/ b.video = "" THEN <<>>
    ELSE <<Msg(i, "video_gate", b.id, _video_cb(t.uid, b.id))>>

\* the pause after a block: await asyncio.sleep(delay) if delay > 0
Pause(b) == IF b.delay > 0 THEN b.delay ELSE 0

\* variant: the end of a flow enqueues nothing
ScheduleNoActions(st, user_id, acts, t0) == st

\* _schedule_after_flow_actions: the jobs of the active actions of the flow
RECURSIVE ScheduleActions(_, _, _, _)
ScheduleActions(st, user_id, acts, t0) ==
    IF acts = <<>> THEN st
    ELSE LET a == Head(acts)
             delay == IF a.delay_seconds < 0 THEN 0 ELSE a.delay_seconds
             key == IF a.id > 0 THEN _job_action(a.id) ELSE _job_flow(a.target_flow)
         IN IF a.is_active # 1 \/ a.action_type # "start_flow"
               \/ a.target_flow = EmptyStr
            THEN ScheduleActions(st, user_id, Tail(acts), t0)
            ELSE ScheduleActions(Upsert(st, user_id, key, t0 + delay),
                                 user_id, Tail(acts), t0)

\* variant: the end of any flow counts as the end of the course
EveryFlowCompletes(flow) == TRUE

\* if flow == _COURSE_COMPLETE_FLOW
CourseComplete(flow) == flow = COURSE_COMPLETE_FLOW

\* unlock_lessons: set lessons_unlocked in the state of the user
unlock_lessons(U, user_id) == U \cup {user_id}

\* the end of the block list: course completion, then the post-flow actions
RenderEnd(i) ==
    LET t == tasks[i]
        done == CourseComplete(t.flow)
        msgs == IF done THEN <<Msg(i, "course_done_menu", 0, EmptyStr)>> ELSE <<>>
    IN /\ unlocked' = IF done THEN unlock_lessons(unlocked, t.uid) ELSE unlocked
       /\ \E lost \in LostChoices(msgs) :
          \E ok \in Outcomes("get_flow_actions") :
             /\ sent' = [sent EXCEPT ![t.uid] = @ \o Delivered(msgs, lost)]
             /\ faulty' = faulty
             /\ LET st == IF ok
                          THEN ScheduleActions(St(jobs, upserts), t.uid,
                                               get_flow_actions(t.flow), now)
                          ELSE St(jobs, upserts)
                IN jobs' = st.j /\ upserts' = st.h
       /\ locks' = Release(locks, t.uid)
       /\ tasks' = [tasks EXCEPT ![i].pc = Ret(t), ![i].out = "end"]
       /\ UNCHANGED <<now, ticks, events, blocks, changed, modes, triggers, actions,
                      pressed, flowModes, running, sched, acks, safe, wire>>

\* one pass of the loop body up to its pause: content and attachment of the
\* next block, or the watch prompt of a video block and the return
RenderContent(i, k) ==
    LET t == tasks[i]
        b == t.bl[k]
        video == b.type = "video"
        msgs == IF video THEN VideoGateMsgs(i, t, b)
                ELSE ContentMsgs(i, t, b) \o AttachmentMsgs(i, b)
        menu == t.menu_attached_once
                \/ (~video /\ ContentMsgs(i, t, b) # <<>>
                    /\ ContentMsgs(i, t, b)[1].kind = "welcome_menu")
    IN /\ \E lost \in LostChoices(msgs) :
             /\ sent' = [sent EXCEPT ![t.uid] = @ \o Delivered(msgs, lost)]
             /\ faulty' = faulty
       /\ IF video
          THEN /\ locks' = Release(locks, t.uid)
               /\ tasks' = [tasks EXCEPT ![i].pc = Ret(t), ![i].out = "video",
                                         ![i].idx = k, ![i].last = b.id]
          ELSE /\ locks' = locks
               /\ tasks' = [tasks EXCEPT
                     ![i].pc = IF b.gate_next_flow # EmptyStr THEN "gate" ELSE "block",
                     ![i].idx = IF b.gate_next_flow # EmptyStr THEN k ELSE k + 1,
                     ![i].wake = now + Pause(b),
                     ![i].last = b.id,
                     ![i].menu_attached_once = menu]
       /\ UNCHANGED <<now, ticks, events, blocks, changed, modes, triggers, actions, jobs,
                      pressed, unlocked, flowModes, running, sched, upserts, acks,
                      safe, wire>>

\* the loop of render_flow, resumed after the pause of the block before
RenderBlock(i) ==
    /\ tasks[i].pc = "block"
    /\ now >= tasks[i].wake
    /\ IF NextIdx(tasks[i]) = 0
       THEN RenderEnd(i)
       ELSE RenderContent(i, NextIdx(tasks[i]))

\* variant: no reminder job is enqueued at a gate
NoGateReminder(st, user_id, b, t0) == st

\* variant: a gate that already has a reminder job keeps it as it is
GateReminderOnce(st, user_id, b, t0) ==
    IF b.gate_reminder_seconds > 0 /\ b.id > 0
       /\ ~\E k \in 1..Len(st.j) :
              /\ st.j[k].user_id = user_id
              /\ st.j[k].flow = _job_gate(b.id, b.gate_next_flow)
    THEN Upsert(st, user_id, _job_gate(b.id, b.gate_next_flow),
                t0 + b.gate_reminder_seconds)
    ELSE st

\* variant: the return at a gate runs the post-flow actions of the flow first
GateThenActions(st, user_id, b, t0) ==
    ScheduleActions(IF b.gate_reminder_seconds > 0 /\ b.id > 0
                    THEN Upsert(st, user_id, _job_gate(b.id, b.gate_next_flow),
                                t0 + b.gate_reminder_seconds)
                    ELSE st,
                    user_id, get_flow_actions(b.flow), t0)

\* _schedule_gate_reminder: nothing for seconds <= 0
GateReminder(st, user_id, b, t0) ==
    IF b.gate_reminder_seconds > 0 /\ b.id > 0
    THEN Upsert(st, user_id, _job_gate(b.id, b.gate_next_flow),
                t0 + b.gate_reminder_seconds)
    ELSE st

\* variant: an exception in the gate part of a block ends the render
GateRaisedReturns(t) == [t EXCEPT !.pc = Ret(t), !.out = "raised"]

\* what the loop does when the gate part of a block raises: the except
\* clause of the loop body logs and continues with the next block
GateRaised(t) == [t EXCEPT !.pc = "block", !.idx = t.idx + 1, !.wake = 0]

\* 3) GATE, after its pause: the reminder job, the prompt, return
RenderGate(i) ==
    /\ tasks[i].pc = "gate"
    /\ now >= tasks[i].wake
    /\ LET t == tasks[i]
           b == t.bl[t.idx]
           uses == b.gate_reminder_seconds > 0 /\ b.id > 0
           msgs == <<Msg(i, "gate_prompt", b.id,
                         _gate_cb(t.uid, b.id, b.gate_next_flow))>>
       IN \E ok \in (IF uses THEN Outcomes("gate_upsert_job") ELSE {TRUE}) :
             IF ~ok
             THEN /\ tasks' = [tasks EXCEPT ![i] = GateRaised(t)]
                  /\ faulty' = faulty
                  /\ UNCHANGED <<jobs, upserts, sent, locks, safe, wire>>
             ELSE \E lost \in LostChoices(msgs) :
                  /\ LET st == GateReminder(St(jobs, upserts), t.uid, b, now)
                     IN jobs' = st.j /\ upserts' = st.h
                  /\ sent' = [sent EXCEPT ![t.uid] = @ \o Delivered(msgs, lost)]
                  /\ faulty' = faulty
                  /\ locks' = Release(locks, t.uid)
                  /\ tasks' = [tasks EXCEPT ![i].pc = Ret(t), ![i].out = "gate"]
    /\ UNCHANGED <<now, ticks, events, blocks, changed, modes, triggers, actions,
                   pressed, unlocked, flowModes, running, sched, acks, safe,
                   wire>>

----------------------------------------------------------------------------
(* Handlers of inbound events *)

\* variant: every active trigger gets its job, whatever the mode of its flow
RECURSIVE ScheduleEveryTrigger(_, _, _, _, _)
ScheduleEveryTrigger(st, user_id, trs, cache, t0) ==
    IF trs = <<>> THEN st
    ELSE LET tr == Head(trs)
         IN IF tr.flow = EmptyStr \/ tr.is_active # 1 \/ tr.offset_seconds < 0
            THEN ScheduleEveryTrigger(st, user_id, Tail(trs), cache, t0)
            ELSE ScheduleEveryTrigger(
                     Upsert(st, user_id, _job_flow(tr.flow), t0 + tr.offset_seconds),
                     user_id, Tail(trs), cache, t0)

\* schedule_from_flow_triggers, with the mode cache as just refreshed
RECURSIVE ScheduleTriggers(_, _, _, _, _)
ScheduleTriggers(st, user_id, trs, cache, t0) ==
    IF trs = <<>> THEN st
    ELSE LET tr == Head(trs)
         IN IF tr.flow = EmptyStr \/ tr.is_active # 1 \/ tr.offset_seconds < 0
               \/ ModeIn(cache, tr.flow) # "auto"
            THEN ScheduleTriggers(st, user_id, Tail(trs), cache, t0)
            ELSE ScheduleTriggers(
                     Upsert(st, user_id, _job_flow(tr.flow), t0 + tr.offset_seconds),
                     user_id, Tail(trs), cache, t0)

\* /start: refresh the modes, schedule the triggers, send the menu
cmd_start(u) ==
    /\ events < MaxEvents
    /\ events' = events + 1
    /\ \E ok \in Outcomes("get_flow_modes") :
          LET cache == IF ok THEN get_flow_modes ELSE NoModes
              st == ScheduleTriggers(St(jobs, upserts), u, get_flow_triggers,
                                     cache, now)
          IN /\ flowModes' = cache
             /\ faulty' = faulty
             /\ jobs' = st.j
             /\ upserts' = st.h
    /\ sent' = [sent EXCEPT ![u] = Append(@, Msg(0, "start_menu", 0, EmptyStr))]
    /\ UNCHANGED <<now, ticks, blocks, changed, modes, triggers, actions, pressed,
                   unlocked, locks, running, sched, tasks, acks, safe, wire>>

\* the callback payloads of the controls delivered so far
Controls(kinds) ==
    UNION {{sent[u][k].cb : k \in {n \in 1..Len(sent[u]) : sent[u][n].kind \in kinds}}
           : u \in Users}


\* variant: the handlers do not look at who pressed
ForAnyone(p, target_uid) == FALSE

\* if call.from_user.id != target_uid: answer "not for you" and return
NotForYou(p, target_uid) == p # target_uid

\* a press of a gate control by user p: check the recipient, record the
\* press, mark the reminder job done, then call render_flow(next_flow)
cb_gate_next(p, data) ==
    /\ events < MaxEvents
    /\ events' = events + 1
    /\ acks' = acks \cup {[by |-> p, data |-> data]}
    /\ LET parts == Split(data, 3)
           parsed == Len(parts) = 4 /\ IsInt(parts[2]) /\ IsInt(parts[3])
           target_uid == IntOf(parts[2])
           block_id == IntOf(parts[3])
           next_flow == parts[4]
       IN IF ~parsed \/ NotForYou(p, target_uid)
          THEN UNCHANGED <<faulty, jobs, pressed, tasks, safe, wire>>
          ELSE \E ok1 \in (IF block_id > 0 THEN Outcomes("mark_gate_pressed") ELSE {TRUE}) :
               \E ok2 \in Outcomes("mark_job_done_by_user_flow") :
                  /\ pressed' = IF block_id > 0 /\ ok1
                                THEN mark_gate_pressed(pressed, target_uid, block_id)
                                ELSE pressed
                  /\ jobs' = IF ok2
                             THEN mark_job_done_by_user_flow(
                                      jobs, target_uid, _job_gate(block_id, next_flow))
                             ELSE jobs
                  /\ faulty' = faulty
                  /\ tasks' = Append(tasks,
                                BeginRender(Task("cb_gate", target_uid, 0, data,
                                                 "new", EmptyStr, 0),
                                            next_flow, 0))
    /\ UNCHANGED <<now, ticks, blocks, changed, modes, triggers, actions, unlocked,
                   flowModes, locks, running, sched, sent, upserts, safe, wire>>

\* a press of a video control by user p: send the link, then enqueue the
\* resume job for the position after the block
cb_video(p, data) ==
    /\ events < MaxEvents
    /\ events' = events + 1
    /\ acks' = acks \cup {[by |-> p, data |-> data]}
    /\ LET parts == Split(data, 2)
           parsed == Len(parts) = 3 /\ IsInt(parts[2]) /\ IsInt(parts[3])
           target_uid == IntOf(parts[2])
           block_id == IntOf(parts[3])
       IN IF ~parsed \/ NotForYou(p, target_uid) \/ ~HasBlock(block_id)
          THEN UNCHANGED <<faulty, jobs, upserts, sent, safe, wire>>
          ELSE LET b == get_block(block_id)
                   delay_after_click == IF b.delay < 0 THEN 0 ELSE b.delay
                   next_pos == IF b.position + 1 <= 0 THEN 1 ELSE b.position + 1
                   msgs == <<Msg(0, "video_link", b.id, EmptyStr)>>
                   st == Upsert(St(jobs, upserts), target_uid,
                                _job_resume(b.flow, next_pos),
                                now + delay_after_click)
               IN IF b.video = ""
                  THEN UNCHANGED <<faulty, jobs, upserts, sent, safe, wire>>
                  ELSE \E lost \in LostChoices(msgs) :
                          /\ sent' = [sent EXCEPT ![target_uid] =
                                         @ \o Delivered(msgs, lost)]
                          /\ faulty' = faulty
                          /\ jobs' = st.j
                          /\ upserts' = st.h
    /\ UNCHANGED <<now, ticks, blocks, changed, modes, triggers, actions, pressed,
                   unlocked, flowModes, locks, running, sched, tasks, safe,
                   wire>>

----------------------------------------------------------------------------
(* The authoring console *)

\* POST /flow/{flow}/trigger: set the mode, keep the offset, and make the
\* trigger active exactly for mode auto
flow_trigger_save(flow, mode) ==
    /\ events < MaxEvents
    /\ events' = events + 1
    /\ mode # modes[flow]
    /\ modes' = [modes EXCEPT ![flow] = mode]
    /\ changed' = [changed EXCEPT ![flow] = now]
    /\ LET old == {tr \in triggers : tr.flow = flow}
           offset == IF old = {} THEN 0 ELSE (CHOOSE tr \in old : TRUE).offset_seconds
       IN triggers' = (triggers \ old)
                      \cup {Trigger(flow, offset, IF mode = "auto" THEN 1 ELSE 0)}
    /\ UNCHANGED <<now, ticks, faulty, blocks, actions, jobs, pressed, unlocked,
                   flowModes, locks, running, sched, tasks, sent, upserts, acks,
                   safe, wire>>

\* upsert_flow_action: the action of after_flow is edited in place and keeps
\* its id; a flow without an action gets a new row
upsert_flow_action(acts, after_flow, target_flow, delay_seconds, is_active) ==
    LET old == {a \in acts : a.after_flow = after_flow}
        ids == {a.id : a \in acts}
        next_id == IF ids = {} THEN 1
                   ELSE (CHOOSE m \in ids : \A k \in ids : k <= m) + 1
    IN IF old = {}
       THEN acts \cup {Action(next_id, after_flow, target_flow, delay_seconds,
                              is_active)}
       ELSE (acts \ old)
            \cup {[a EXCEPT !.target_flow = target_flow,
                            !.delay_seconds = delay_seconds,
                            !.is_active = is_active] : a \in old}

\* delete_flow_action
delete_flow_action(acts, action_id) == {a \in acts : a.id # action_id}

\* POST /flow/action/upsert: nothing for an empty flow name; delay >= 0,
\* is_active 0 or 1
flow_action_upsert(after_flow, target_flow, is_active, delay_seconds) ==
    /\ events < MaxEvents
    /\ events' = events + 1
    /\ LET delay == IF delay_seconds < 0 THEN 0 ELSE delay_seconds
       IN actions' = IF after_flow = EmptyStr \/ target_flow = EmptyStr
                     THEN actions
                     ELSE upsert_flow_action(actions, after_flow, target_flow, delay,
                                             IF is_active # 0 THEN 1 ELSE 0)
    /\ actions' # actions
    /\ UNCHANGED <<now, ticks, faulty, blocks, changed, modes, triggers, jobs,
                   pressed, unlocked, flowModes, locks, running, sched, tasks,
                   sent, upserts, acks, safe, wire>>

\* POST /flow/action/{action_id}/delete
flow_action_delete(action_id) ==
    /\ events < MaxEvents
    /\ events' = events + 1
    /\ actions' = delete_flow_action(actions, action_id)
    /\ actions' # actions
    /\ UNCHANGED <<now, ticks, faulty, blocks, changed, modes, triggers, jobs,
                   pressed, unlocked, flowModes, locks, running, sched, tasks,
                   sent, upserts, acks, safe, wire>>

----------------------------------------------------------------------------
(* The system *)

\* the users who write to the bot: both, and user 1 alone in a run where a
\* call can fail
Acting == IF faulty = {} THEN Users ELSE {1}

Start == \E u \in Acting : cmd_start(u)

PressGate ==
    \E p \in Acting : \E data \in Controls({"gate_prompt", "gate_reminder"}) :
        cb_gate_next(p, data)

PressVideo ==
    \E p \in Acting : \E data \in Controls({"video_gate"}) : cb_video(p, data)

ConsoleSave ==
    \E flow \in {W, D2} : \E mode \in {"manual", "auto"} :
        flow_trigger_save(flow, mode)

ExecuteStart == \E i \in TaskIds : JobStart(i)
ExecuteRemind == \E i \in TaskIds : JobRemind(i)
ExecuteMark == \E i \in TaskIds : JobMark(i)
RenderLock == \E i \in TaskIds : RenderBegin(i)
RenderLoop == \E i \in TaskIds : RenderBlock(i)
RenderGateStep == \E i \in TaskIds : RenderGate(i)

Next ==
    \/ Tick
    \/ Start
    \/ PressGate
    \/ PressVideo
    \/ ConsoleSave
    \/ LoopRefresh
    \/ LoopFetch
    \/ LoopDispatch
    \/ ExecuteStart
    \/ ExecuteRemind
    \/ ExecuteMark
    \/ RenderLock
    \/ RenderLoop
    \/ RenderGateStep

Spec == Init /\ [][Next]_vars

SpecFaults == InitFaults /\ [][Next]_vars

----------------------------------------------------------------------------
(* The system with the whole authoring console: the post-flow actions are   *)
(* edited as well                                                           *)

InitConsole ==
    /\ faulty = {}
    /\ InitStore
    /\ safe = NoCall
    /\ wire = NoWire
    /\ InitDay2 \/ InitBroadcast

ActionSave ==
    \E target_flow \in {D1, D3} : \E is_active \in {0, 1} :
        flow_action_upsert(D2, target_flow, is_active, 0)

ActionDelete == \E a \in actions : flow_action_delete(a.id)

ExecuteRepeat == \E i \in TaskIds : JobRepeat(i)

NextConsole ==
    \/ Next
    \/ ActionSave
    \/ ActionDelete
    \/ ExecuteRepeat

SpecConsole == InitConsole /\ [][NextConsole]_vars

----------------------------------------------------------------------------
(* The console deletes a flow *)

\* a row DELETE has removed: the ids of the other rows stay what they were
DeletedRow == [user_id |-> 0, flow |-> EmptyStr, run_at_ts |-> 0, is_done |-> 1]

\* DELETE FROM jobs WHERE flow = name: the key compared with the bare name
JobsWithoutFlow(J, name) ==
    [i \in 1..Len(J) |-> IF J[i].flow = name THEN DeletedRow ELSE J[i]]

\* delete_flow: the blocks, the jobs, the triggers and the row of the flow
\* (its mode goes with the row)
delete_flow(name) ==
    /\ blocks' = {r \in blocks : r.flow # name}
    /\ jobs' = JobsWithoutFlow(jobs, name)
    /\ triggers' = {t \in triggers : t.flow # name}
    /\ modes' = [modes EXCEPT ![name] = ""]

\* POST /flow/{flow}/delete
flow_delete(flow) ==
    /\ events < MaxEvents
    /\ events' = events + 1
    /\ delete_flow(flow)
    /\ UNCHANGED <<now, ticks, faulty, changed, actions, pressed, unlocked,
                   flowModes, locks, running, sched, tasks, sent, upserts, acks,
                   safe, wire>>

\* the flows the console deletes here, each once
FlowDelete == \E flow \in {D1, D2} : modes[flow] # "" /\ flow_delete(flow)

NextDelete ==
    \/ Next
    \/ FlowDelete

SpecDelete == Init /\ [][NextDelete]_vars

----------------------------------------------------------------------------
(* _safe_call, attempt by attempt *)

SEND_RETRIES == 4

\* what one call of fn() can do: return (the result of the n-th call is
\* written n), or raise one of the exception classes the except clauses name
Raised == {"TelegramRetryAfter", "TelegramNetworkError", "TelegramAPIError",
           "Exception"}
FnOutcomes == {"return"} \cup Raised

\* variant: no 'except Exception' clause after the three Telegram ones
CaughtTelegramOnly(exc) ==
    exc \in {"TelegramRetryAfter", "TelegramNetworkError", "TelegramAPIError"}

\* an except clause of the loop body catches the exception
Caught(exc) ==
    exc \in {"TelegramRetryAfter", "TelegramNetworkError", "TelegramAPIError",
             "Exception"}

\* everything but the call
others == <<now, ticks, events, faulty, blocks, changed, modes, triggers, actions,
            jobs, pressed, unlocked, flowModes, locks, running, sched, tasks,
            sent, upserts, acks, wire>>

\* a call is entered; what each of the SEND_RETRIES calls of fn() would do is
\* drawn here
InitSend ==
    /\ faulty = {}
    /\ InitStore
    /\ InitFresh
    /\ wire = NoWire
    /\ \E outcomes \in [1..SEND_RETRIES -> FnOutcomes] :
          safe = [pc |-> "try", attempt |-> 0, calls |-> 0,
                  outcomes |-> outcomes, last_exc |-> "", result |-> None]

\* one pass of 'for attempt in range(_SEND_RETRIES)': return await fn(), or
\* the except clause that remembers the exception and sleeps
SafeCallAttempt ==
    /\ safe.pc = "try" /\ safe.attempt < SEND_RETRIES
    /\ LET out == safe.outcomes[safe.attempt + 1]
       IN safe' = IF out = "return"
                  THEN [safe EXCEPT !.pc = "returned", !.calls = @ + 1,
                                    !.result = safe.attempt + 1]
                  ELSE IF Caught(out)
                  THEN [safe EXCEPT !.attempt = @ + 1, !.calls = @ + 1,
                                    !.last_exc = out]
                  ELSE [safe EXCEPT !.pc = "raised", !.calls = @ + 1,
                                    !.last_exc = out]
    /\ UNCHANGED others

\* the loop is exhausted: log.error, return None
SafeCallGiveUp ==
    /\ safe.pc = "try" /\ safe.attempt = SEND_RETRIES
    /\ safe' = [safe EXCEPT !.pc = "returned", !.result = None]
    /\ UNCHANGED others

NextSend ==
    \/ SafeCallAttempt
    \/ SafeCallGiveUp

SpecSend == InitSend /\ [][NextSend]_vars

----------------------------------------------------------------------------
(* A job key from its producer to _execute_job_and_mark_done *)

MaxKeyNum == 4

\* flow names the console accepts: any non-empty string, ':' included
\* ("a:b" is two segments)
KeyFlows == {D1, D3, <<"a", "b">>, <<"a", "2">>}

KeyKinds == {"flow", "resume", "gate", "action"}

\* the post-flow actions of the store here: one active action per id
KeyActions ==
    { Action(1, D2, D3, 0, 1), Action(2, D2, <<"a", "b">>, 0, 1),
      Action(3, D1, D1, 0, 1), Action(4, D1, <<"a", "2">>, 0, 1) }

\* everything but the key
rest == <<now, ticks, events, faulty, blocks, changed, modes, triggers, actions,
          jobs, pressed, unlocked, flowModes, locks, running, sched, tasks,
          sent, upserts, acks, safe>>

\* a producer is about to build a key for a flow and a number (position,
\* block id or action id); every flow is in mode auto, no gate is pressed
InitKeys ==
    /\ faulty = {}
    /\ ticks = 0
    /\ events = 0
    /\ blocks = SeedBlocks
    /\ modes = [f \in KeyFlows |-> "auto"]
    /\ changed = [f \in FlowNames |-> 0]
    /\ triggers = SeedTriggers
    /\ actions = KeyActions
    /\ unlocked = {}
    /\ flowModes = [f \in KeyFlows |-> "auto"]
    /\ locks = [u \in Users |-> 0]
    /\ running = {}
    /\ InitFresh
    /\ safe = NoCall
    /\ \E kind \in KeyKinds : \E flow \in KeyFlows : \E n \in 1..MaxKeyNum :
          wire = [NoWire EXCEPT !.pc = "produce", !.kind = kind,
                                !.flow = flow, !.n = n]

\* the producer builds the key that is stored in the job row
KeyProduce ==
    /\ wire.pc = "produce"
    /\ wire' = [wire EXCEPT
                   !.pc = "stored",
                   !.key = IF wire.kind = "flow" THEN _job_flow(wire.flow)
                           ELSE IF wire.kind = "resume"
                           THEN _job_resume(wire.flow, wire.n)
                           ELSE IF wire.kind = "gate"
                           THEN _job_gate(wire.n, wire.flow)
                           ELSE _job_action(wire.n)]
    /\ UNCHANGED rest

\* the scheduler dispatches the job of user 1 with that key: the body of
\* _execute_job_and_mark_done up to its render_flow call or reminder
KeyConsume ==
    /\ wire.pc = "stored"
    /\ wire' = [wire EXCEPT
                   !.pc = "parsed",
                   !.job = JobBody(Task("job", 1, 0, wire.key, "start",
                                        EmptyStr, 0), TRUE)]
    /\ UNCHANGED rest

NextKeys ==
    \/ KeyProduce
    \/ KeyConsume

SpecKeys == InitKeys /\ [][NextKeys]_vars

----------------------------------------------------------------------------
(* Other welcome flows the console can save *)

\* the blocks of welcome before its gate, in place of the seed's text block:
\* a buttons block with a text, a circle, a text block that has only an
\* attachment, and none (the gate block itself carries the text)
WelcomeVariants ==
    { { [Block(1, W, 1, "buttons", "hi", "", "", 0, 1, EmptyStr, 0)
            EXCEPT !.buttons_json = "ok"],
        Block(2, W, 2, "text", "", "", "", 0, 1, D1, 3600) },
      { [Block(1, W, 1, "circle", "", "", "", 0, 1, EmptyStr, 0)
            EXCEPT !.circle_path = "c"],
        Block(2, W, 2, "text", "", "", "", 0, 1, D1, 3600) },
      { Block(1, W, 1, "text", "", "", "f", 0, 1, EmptyStr, 0),
        Block(2, W, 2, "text", "", "", "", 0, 1, D1, 3600) },
      { Block(2, W, 2, "text", "go", "", "", 0, 1, D1, 3600) } }

\* a fresh process on a store whose welcome flow is one of the variants, or
\* one of the states of Init
InitWelcome ==
    \/ Init
    \/ /\ faulty = {}
       /\ ticks = 0
       /\ events = 0
       /\ \E wb \in WelcomeVariants :
             blocks = {r \in SeedBlocks : r.flow # W} \cup wb
       /\ modes = SeedModes
       /\ changed = [f \in FlowNames |-> 0]
       /\ triggers = SeedTriggers
       /\ actions = SeedActions
       /\ unlocked = {}
       /\ flowModes = SeedModes
       /\ locks = [u \in Users |-> 0]
       /\ running = {}
       /\ InitFresh
       /\ safe = NoCall
       /\ wire = NoWire

SpecWelcome == InitWelcome /\ [][Next]_vars

----------------------------------------------------------------------------
(* render_flow calls queued for the locks of their users *)

MaxQueue == 3

\* the flows the queued calls render: welcome stops at a gate, day2 at a
\* video block, day3 runs to the end of its block list
RenderFlows == {W, D2, D3}

\* the calls of a queue: every call of MaxQueue handlers, each for a user and
\* a flow, has reached 'async with _lock(chat_id)'; the first is for user 1
RenderQueues ==
    {q \in [1..MaxQueue ->
               {BeginRender(Task("cb_gate", u, 0, _gate_cb(u, 0, f), "new",
                                 EmptyStr, 0), f, 0) :
                    u \in Users, f \in RenderFlows}] : q[1].uid = 1}

\* the calls are queued at StartTime; loading the blocks or the upsert of a
\* gate reminder may fail
InitRenders ==
    /\ faulty \in {{}, {"get_blocks"}, {"gate_upsert_job"}}
    /\ InitStore
    /\ now = StartTime
    /\ jobs = <<>>
    /\ sched = [pc |-> "sleep", due |-> <<>>, missed |-> {},
                last_modes_refresh |-> 0, wake |-> StartTime]
    /\ tasks \in RenderQueues
    /\ sent = [u \in Users |-> <<>>]
    /\ upserts = {}
    /\ pressed = {}
    /\ acks = {}
    /\ safe = NoCall
    /\ wire = NoWire

\* await asyncio.sleep(delay) returns: when no call can take a step, the
\* clock moves to the end of the next delay
DelayEnds ==
    /\ \A i \in TaskIds : ~Runnable(tasks[i])
    /\ LET S == {tasks[i].wake : i \in {k \in TaskIds :
                                          /\ tasks[k].pc \in {"block", "gate"}
                                          /\ tasks[k].wake > now}}
       IN /\ S # {}
          /\ now' = CHOOSE w \in S : \A v \in S : w <= v
    /\ UNCHANGED <<ticks, events, faulty, blocks, changed, modes, triggers, actions,
                   jobs, pressed, unlocked, flowModes, locks, running, sched,
                   tasks, sent, upserts, acks, safe, wire>>

NextRenders ==
    \/ RenderLock
    \/ RenderLoop
    \/ RenderGateStep
    \/ DelayEnds

\* the event loop runs a coroutine that is ready, and a delay ends
SpecRenders == InitRenders /\ [][NextRenders]_vars /\ WF_vars(NextRenders)

(* Post-flow actions after every flow of the course *)

\* the console has saved an action after welcome and one after day1 as well,
\* the flows that stop at a gate
StopActions ==
    SeedActions \cup {Action(2, W, D3, 0, 1), Action(3, D1, D3, 0, 1)}

\* loading the blocks or the upsert of a gate reminder may fail
InitStops ==
    /\ faulty \in {{}, {"get_blocks"}, {"gate_upsert_job"}}
    /\ ticks = 0
    /\ events = 0
    /\ blocks = SeedBlocks
    /\ modes = SeedModes
    /\ changed = [f \in FlowNames |-> 0]
    /\ triggers = SeedTriggers
    /\ actions = StopActions
    /\ unlocked = {}
    /\ flowModes = SeedModes
    /\ locks = [u \in Users |-> 0]
    /\ running = {}
    /\ safe = NoCall
    /\ wire = NoWire
    /\ InitFresh \/ InitWelcomed

SpecStops == InitStops /\ [][Next]_vars

(* A video block whose video is not filled in *)

\* the seed with the video reference of block 7, the first block of day2,
\* left empty
NoVideoBlocks ==
    {r \in SeedBlocks : r.id # 7}
        \cup {Block(7, D2, 1, "video", "", "", "", 0, 1, EmptyStr, 0)}

\* a fresh process, or one that has rendered welcome for user 1, on that
\* store, or one of the states of Init
InitNoVideo ==
    \/ Init
    \/ /\ faulty = {}
       /\ ticks = 0
       /\ events = 0
       /\ blocks = NoVideoBlocks
       /\ modes = SeedModes
       /\ changed = [f \in FlowNames |-> 0]
       /\ triggers = SeedTriggers
       /\ actions = SeedActions
       /\ unlocked = {}
       /\ flowModes = SeedModes
       /\ locks = [u \in Users |-> 0]
       /\ running = {}
       /\ InitFresh \/ InitWelcomed
       /\ safe = NoCall
       /\ wire = NoWire

SpecNoVideo == InitNoVideo /\ [][Next]_vars

(* The flow-mode cache when the console changes a mode or the store fails *)

\* the bot as in Init (fresh, or welcome rendered for user 1), with a mode
\* store that answers or fails
InitModes ==
    /\ faulty \in {{}, {"get_flow_modes"}}
    /\ InitStore
    /\ safe = NoCall
    /\ wire = NoWire
    /\ InitFresh \/ InitWelcomed

SpecModes == InitModes /\ [][Next]_vars

(* Properties *)

\* the messages render_flow sends (the others come from handlers and from
\* the reminder branch of a job)
RenderKinds == {"welcome_menu", "welcome_inline_kb", "text", "attachment",
                "circle", "buttons", "buttons_bad_json", "buttons_empty",
                "video_gate", "gate_prompt", "course_done_menu"}

\* the positions of the chat of u that hold messages of render_flow calls
RenderPos(u) == {k \in 1..Len(sent[u]) : sent[u][k].kind \in RenderKinds}

\* C1: the messages of two render_flow calls for the same user never
\* interleave: between two messages of one call the chat holds no message
\* of another call.
C1_NoInterleaving ==
    \A u \in Users : \A a, b, c \in RenderPos(u) :
        (a < b /\ b < c /\ sent[u][a].call = sent[u][c].call)
            => sent[u][b].call = sent[u][a].call

\* C1 witness: two calls for one user overlapped in time (the second was
\* called before the first sent its last message) and both have sent.
C1_Witness ==
    \E u \in Users : \E a, b \in RenderPos(u) :
        /\ a < b
        /\ sent[u][a].call # sent[u][b].call
        /\ tasks[sent[u][b].call].called < sent[u][a].at

\* the row of a block, by id
Row(block_id) == CHOOSE r \in blocks : r.id = block_id

\* the block ids the job keys gate:<id>:<next> of the store name
GateJobBlocks ==
    {IntOf(<<jobs[k].flow[2]>>) :
        k \in {n \in 1..Len(jobs) : StartsWith(jobs[n].flow, "gate")}}

\* C2: one render_flow call sends the content of the active blocks of its
\* flow in strictly increasing position order; an inactive block causes no
\* message, is never the block whose pause a call sleeps, and gets no
\* reminder job.
C2_PositionOrder ==
    /\ \A u \in Users : \A a, b \in RenderPos(u) :
           (a < b /\ sent[u][a].call = sent[u][b].call
                  /\ sent[u][a].blk # 0 /\ sent[u][b].blk # 0
                  /\ sent[u][a].blk # sent[u][b].blk)
               => Row(sent[u][a].blk).position < Row(sent[u][b].blk).position
    /\ \A u \in Users : \A a \in RenderPos(u) :
           sent[u][a].blk # 0 =>
               /\ Row(sent[u][a].blk).is_active = 1
               /\ Row(sent[u][a].blk).flow = tasks[sent[u][a].call].flow
    /\ \A i \in TaskIds : tasks[i].last # 0 => Row(tasks[i].last).is_active = 1
    /\ \A id \in GateJobBlocks : Row(id).is_active = 1

\* C2 witness: one call has sent a block, skipped the inactive block after
\* it, and sent the block behind that one.
C2_Witness ==
    \E u \in Users : \E a, b \in RenderPos(u) : \E r \in blocks :
        /\ a < b /\ sent[u][a].call = sent[u][b].call
        /\ sent[u][a].blk # 0 /\ sent[u][b].blk # 0
        /\ r.is_active = 0
        /\ r.flow = Row(sent[u][a].blk).flow
        /\ Row(sent[u][a].blk).position < r.position
        /\ r.position < Row(sent[u][b].blk).position

\* the rows of the job table for one user and one key
JobsOf(user_id, flow) ==
    {k \in 1..Len(jobs) : jobs[k].user_id = user_id /\ jobs[k].flow = flow}

\* C3: no two jobs share (user_id, job_key), and after any number of
\* upsert_job calls for a pair the store holds exactly one job for it, whose
\* run_at is the run_at of the last call.
C3_UpsertIdempotent ==
    /\ \A a, b \in 1..Len(jobs) :
           (jobs[a].user_id = jobs[b].user_id /\ jobs[a].flow = jobs[b].flow)
               => a = b
    /\ \A h \in upserts :
           /\ Cardinality(JobsOf(h.user_id, h.flow)) = 1
           /\ \A k \in JobsOf(h.user_id, h.flow) :
                  jobs[k].run_at_ts = h.run_at_ts

\* C3 witness: upsert_job was called a second time for a pair, with another
\* run_at than the time before.
C3_Witness ==
    \E h \in upserts :
        /\ h.n = 2 /\ h.prev # h.run_at_ts
        /\ \E k \in JobsOf(h.user_id, h.flow) : jobs[k].run_at_ts = h.run_at_ts

\* the presses of a gate control by its recipient
Presses == {p \in TaskIds : tasks[p].kind = "cb_gate"}

\* the reminder job key a gate payload gate:<uid>:<block_id>:<next> names
ReminderKey(data) == <<"gate", data[3]>> \o SubSeq(data, 4, Len(data))

NoReminderAfterPress ==
    \A u \in Users : \A k \in 1..Len(sent[u]) : \A p \in Presses :
        (sent[u][k].kind = "gate_reminder"
         /\ tasks[p].uid = u
         /\ tasks[p].key[3] = ToString(sent[u][k].blk))
            => ~(tasks[p].called < sent[u][k].at)

PressMarksDone ==
    (Len(tasks') = Len(tasks) + 1 /\ tasks'[Len(tasks')].kind = "cb_gate")
        => LET t == tasks'[Len(tasks')]
           IN /\ <<t.uid, IntOf(<<t.key[3]>>)>> \in pressed'
              /\ \A k \in 1..Len(jobs') :
                     (jobs'[k].user_id = t.uid
                      /\ jobs'[k].flow = ReminderKey(t.key))
                         => jobs'[k].is_done = 1

\* C4: once the recipient has pressed a gate control, no reminder for that
\* gate is sent to them at any later time; the press records the gate as
\* pressed and leaves the job gate:<block_id>:<next_flow> done.
C4_GateSuppression == []NoReminderAfterPress /\ [][PressMarksDone]_vars

\* C4 witness: a gate was pressed before the run_at of its reminder job, the
\* run_at has passed, the job is done and the chat holds no reminder for it.
C4_Witness ==
    \E p \in Presses : \E k \in 1..Len(jobs) :
        /\ jobs[k].user_id = tasks[p].uid
        /\ jobs[k].flow = ReminderKey(tasks[p].key)
        /\ tasks[p].called < jobs[k].run_at_ts
        /\ jobs[k].run_at_ts < now
        /\ jobs[k].is_done = 1
        /\ \A n \in 1..Len(sent[tasks[p].uid]) :
               ~(sent[tasks[p].uid][n].kind = "gate_reminder"
                 /\ ToString(sent[tasks[p].uid][n].blk) = tasks[p].key[3])

\* the flow:<f> jobs whose dispatch has called render_flow
RenderedFlowJobs ==
    {i \in TaskIds : /\ tasks[i].kind = "job"
                     /\ StartsWith(tasks[i].key, "flow")
                     /\ tasks[i].called # 0}

Finishing ==
    {i \in TaskIds : /\ tasks[i].kind = "job" /\ tasks[i].pc # "done"
                     /\ tasks'[i].pc = "done"}

\* the end of a dispatch leaves the job done and out of the in-flight set
MarkedAtEnd ==
    \A i \in Finishing : /\ jobs'[tasks[i].jid].is_done = 1
                         /\ tasks[i].jid \notin running'

\* a done job becomes pending again only by an upsert of its key, never by
\* the scheduler or by a dispatch task
RearmedOnlyByUpsert ==
    \A k \in 1..Len(jobs) :
        (jobs[k].is_done = 1 /\ jobs'[k].is_done = 0)
            => /\ Finishing = {} /\ sched' = sched /\ running' = running
               /\ \E h \in upserts' : /\ h.user_id = jobs[k].user_id
                                       /\ h.flow = jobs[k].flow
                                       /\ h.run_at_ts = jobs'[k].run_at_ts

Dispatches(jid) ==
    {i \in TaskIds : tasks[i].kind = "job" /\ tasks[i].jid = jid
                     /\ tasks[i].pc # "done"}

\* C7: at no time are two dispatch tasks running for the same job id, and
\* the id of every running dispatch task is in the in-flight set.
C7_OneDispatchPerJob ==
    \A jid \in 1..Len(jobs) :
        /\ Cardinality(Dispatches(jid)) <= 1
        /\ Dispatches(jid) # {} => jid \in running

\* C7 witness: a tick has fetched as due a job whose dispatch is still
\* running (its render is in an inter-block pause on a later second than
\* the one it was dispatched in); the loop is about to go through the result.
C7_Witness ==
    \E k \in 1..Len(sched.due) :
        /\ sched.pc = "loop"
        /\ sched.due[k].id \in running
        /\ Cardinality(Dispatches(sched.due[k].id)) = 1
        /\ \E i \in Dispatches(sched.due[k].id) :
               tasks[i].called # 0 /\ tasks[i].called < now

\* the flows a start event is to deliver at once: auto in the store, with an
\* active trigger of offset 0 and an active block to send
ZeroOffsetAuto ==
    {f \in FlowNames :
        /\ modes[f] = "auto"
        /\ \E tr \in triggers : tr.flow = f /\ tr.is_active = 1
                                 /\ tr.offset_seconds = 0
        /\ \E r \in blocks : r.flow = f /\ r.is_active = 1}

\* this step is the handling of a start event of u, from its first await to
\* the start menu it ends with
StartOf(u) ==
    /\ events' = events + 1
    /\ Len(sent'[u]) > Len(sent[u])
    /\ sent'[u][Len(sent'[u])].kind = "start_menu"

\* C8 as stated: the handling of a start event sends, before it returns,
\* the blocks of every auto flow whose active trigger has offset 0.
C8_RenderedInStartCall ==
    [][\A u \in Users : StartOf(u) =>
          \A f \in ZeroOffsetAuto :
             \E k \in (Len(sent[u]) + 1)..Len(sent'[u]) :
                /\ sent'[u][k].kind \in RenderKinds
                /\ sent'[u][k].blk # 0
                /\ Row(sent'[u][k].blk).flow = f]_vars

\* the messages of the render_flow call of task i in the chat of its user
CallPos(i) ==
    {k \in RenderPos(tasks[i].uid) : sent[tasks[i].uid][k].call = i
                                      /\ sent[tasks[i].uid][k].blk # 0}

\* the active gate blocks of the flow of call i, from its start position on
GatesOf(i) ==
    {g \in blocks : /\ g.flow = tasks[i].flow /\ g.is_active = 1
                    /\ g.gate_next_flow # EmptyStr
                    /\ g.position >= tasks[i].start}

\* C9 as stated: a render_flow call sends nothing of a block that comes
\* after an active gate block of its flow, and nothing of another flow, on
\* every path, failures of the store and of the channel included.
C9_NothingAfterGate ==
    \A i \in TaskIds : \A k \in CallPos(i) :
        LET r == Row(sent[tasks[i].uid][k].blk)
        IN /\ r.flow = tasks[i].flow
           /\ \A g \in GatesOf(i) : r.position <= g.position

\* the two blocks of welcome: a text block, then a gate to day1 with a
\* reminder after 3600 seconds
WelcomeText == CHOOSE r \in blocks : r.flow = W /\ r.gate_next_flow = EmptyStr
WelcomeGate == CHOOSE r \in blocks : r.flow = W /\ r.gate_next_flow = D1

\* the render_flow calls of welcome that have returned at its gate
WelcomeCalls ==
    {i \in TaskIds : tasks[i].flow = W /\ tasks[i].start = 0
                     /\ tasks[i].out = "gate"}

\* the chat positions of every message of call i, in order
RECURSIVE Ascending(_)
Ascending(S) ==
    IF S = {} THEN <<>>
    ELSE LET m == CHOOSE x \in S : \A y \in S : x <= y
         IN <<m>> \o Ascending(S \ {m})

MsgsOf(i) ==
    LET u == tasks[i].uid
        pos == Ascending({k \in 1..Len(sent[u]) : sent[u][k].call = i})
    IN [n \in 1..Len(pos) |-> sent[u][pos[n]]]

\* what a returned call of welcome has sent: the text, then the prompt
OneTextOnePrompt ==
    \A i \in WelcomeCalls :
        LET m == MsgsOf(i)
        IN /\ Len(m) = 2
           /\ m[1].kind \in {"text", "welcome_menu"} /\ m[1].blk = WelcomeText.id
           /\ m[2].kind = "gate_prompt" /\ m[2].blk = WelcomeGate.id
           /\ m[2].cb = _gate_cb(tasks[i].uid, WelcomeGate.id, D1)
           /\ m[1].at <= m[2].at

\* what the return of a call of welcome leaves in the job store: one job
\* gate:<block_id>:day1 of the user, pending, due 3600 seconds later
ReminderLeft ==
    \A i \in TaskIds :
        (tasks'[i].flow = W /\ tasks'[i].out = "gate" /\ tasks[i].out # "gate")
            => LET rows == {k \in 1..Len(jobs') :
                              /\ jobs'[k].user_id = tasks[i].uid
                              /\ jobs'[k].flow = _job_gate(WelcomeGate.id, D1)}
               IN /\ Cardinality(rows) = 1
                  /\ \A k \in rows : /\ jobs'[k].is_done = 0
                                      /\ jobs'[k].run_at_ts = now + 3600
                  /\ WelcomeGate.gate_reminder_seconds = 3600

\* C10: rendering welcome (one active text block, then a gate block with
\* gate_next_flow = day1 and gate_reminder_seconds = 3600) sends exactly one
\* text message and then exactly one gate prompt and nothing else, no block
\* of day1 among it, and leaves exactly one pending job gate:<block_id>:day1
\* whose run_at is the time of the prompt plus 3600.
C10_ScenarioA == []OneTextOnePrompt /\ [][ReminderLeft]_vars

\* C10 witness: a render of welcome for user 2, made in this run, has
\* returned at the gate; the reminder job is pending and nothing of day1 is
\* in the chat.
C10_Witness ==
    \E i \in WelcomeCalls :
        /\ tasks[i].uid = 2
        /\ tasks[i].pc = "done"
        /\ \E k \in 1..Len(jobs) :
               /\ jobs[k].user_id = 2
               /\ jobs[k].flow = _job_gate(WelcomeGate.id, D1)
               /\ jobs[k].is_done = 0
               /\ jobs[k].run_at_ts = MsgsOf(i)[2].at + 3600
        /\ \A k \in 1..Len(sent[2]) :
               sent[2][k].blk # 0 => Row(sent[2][k].blk).flow = W

\* this step is a press of a gate control that its recipient made: the
\* handler has got past the check of the recipient
GatePressed ==
    Len(tasks') = Len(tasks) + 1 /\ tasks'[Len(tasks')].kind = "cb_gate"

\* what the handler of a press has done when it calls render_flow: the
\* marker of (user, block_id) is recorded, the rows of the job
\* gate:<block_id>:<next_flow> of the user are done and no other row, column
\* or upsert record has changed (nothing at all when there is no such row),
\* and render_flow(next_flow) is called in the same step, before any send
PressThenRender ==
    GatePressed =>
        LET t == tasks'[Len(tasks')]
            block_id == IntOf(<<t.key[3]>>)
            next_flow == SubSeq(t.key, 4, Len(t.key))
            rows == JobsOf(t.uid, ReminderKey(t.key))
        IN /\ block_id > 0 => <<t.uid, block_id>> \in pressed'
           /\ pressed' \subseteq pressed \cup {<<t.uid, block_id>>}
           /\ Len(jobs') = Len(jobs)
           /\ \A k \in 1..Len(jobs) :
                 jobs'[k] = IF k \in rows THEN [jobs[k] EXCEPT !.is_done = 1]
                            ELSE jobs[k]
           /\ rows = {} => jobs' = jobs
           /\ upserts' = upserts
           /\ t.flow = next_flow /\ t.start = 0
           /\ t.called = now /\ t.pc = "lock"
           /\ sent' = sent

\* the marker is there for as long as the render that a press called exists
MarkerBeforeRender ==
    \A p \in Presses :
        IntOf(<<tasks[p].key[3]>>) > 0
            => is_gate_pressed(tasks[p].uid, IntOf(<<tasks[p].key[3]>>))

\* marking the job of a key that no row has changes nothing
MarkAbsentKey ==
    \A u \in Users : \A r \in blocks : \A f \in FlowNames :
        JobsOf(u, _job_gate(r.id, f)) = {}
            => mark_job_done_by_user_flow(jobs, u, _job_gate(r.id, f)) = jobs

ActiveActions(flow) ==
    {a \in actions : /\ a.after_flow = flow /\ a.is_active = 1
                     /\ a.action_type = "start_flow"
                     /\ a.target_flow # EmptyStr}

\* the job key of an action
ActionKey(a) == <<"action", ToString(a.id)>>

\* the render_flow calls that end in this step at the end of the block list
Ending ==
    {i \in TaskIds : tasks[i].out # "end" /\ tasks'[i].out = "end"}

\* the end of a render leaves, for each active action of its flow, exactly
\* one job of the user: pending, with run_at = now + delay
ActionJobsLeft ==
    \A i \in Ending : \A a \in ActiveActions(tasks[i].flow) :
        LET rows == {k \in 1..Len(jobs') : /\ jobs'[k].user_id = tasks[i].uid
                                           /\ jobs'[k].flow = ActionKey(a)}
        IN /\ Cardinality(rows) = 1
           /\ \A k \in rows :
                 /\ jobs'[k].is_done = 0
                 /\ jobs'[k].run_at_ts
                        = now + (IF a.delay_seconds < 0 THEN 0 ELSE a.delay_seconds)
           /\ sent'[tasks[i].uid] = sent[tasks[i].uid]
           /\ Len(tasks') = Len(tasks)

\* the flows that are rendered only as the target of an action: no trigger,
\* no gate and no video block leads to them
ActionOnlyTargets ==
    {a.target_flow : a \in actions}
        \ ({tr.flow : tr \in triggers} \cup {r.gate_next_flow : r \in blocks}
           \cup {r.flow : r \in {q \in blocks : q.type = "video"}})

\* every message of a block comes from a call of render_flow for the flow of
\* the block, and a block of a flow that is only the target of an action is
\* sent by the dispatch of that action's job, which was enqueued before
TargetOnlyByJob ==
    \A u \in Users : \A n \in RenderPos(u) :
        LET m == sent[u][n]
            c == tasks[m.call]
        IN m.blk # 0 =>
              /\ Row(m.blk).flow = c.flow
              /\ Row(m.blk).flow \in ActionOnlyTargets =>
                    /\ c.kind = "job"
                    /\ \E a \in actions : /\ c.key = ActionKey(a)
                                          /\ a.target_flow = c.flow
                                          /\ c.jid \in JobsOf(u, ActionKey(a))

StoredPause(r) == IF r.delay_seconds > 0 THEN r.delay_seconds ELSE 0

\* the render_flow calls that start the pause of a block in this step
Pausing ==
    {i \in TaskIds : /\ tasks[i].pc = "block" /\ tasks'[i] # tasks[i]
                     /\ tasks'[i].pc \in {"block", "gate"}}

\* C13 as stated: the pause render_flow applies after a block is the stored
\* delay_seconds when that is a positive number and 0 seconds otherwise; no
\* stored value yields a nonzero default.
C13_PauseIsStoredDelay ==
    [][\A i \in Pausing :
          tasks'[i].wake - now = StoredPause(Row(tasks'[i].last))]_vars

\* the active video blocks with a video reference that a call of
\* render_flow meets: those of its flow from its start position on
VideosOf(i) ==
    {v \in blocks : /\ v.flow = tasks[i].flow /\ v.is_active = 1
                    /\ v.type = "video" /\ v.video # ""
                    /\ v.position >= tasks[i].start}

\* the render_flow calls that have returned at a video block
VideoCalls == {i \in TaskIds : tasks[i].out = "video"}

\* a call that has returned at a video block with a reference has sent, as
\* its last message, one watch prompt whose control is video:<uid>:<block_id>
\* of that user and block, and no video link
OneWatchPrompt ==
    \A i \in VideoCalls :
        LET m == MsgsOf(i)
            v == Row(tasks[i].last)
            prompts == {n \in 1..Len(m) : m[n].kind = "video_gate"}
        IN v.video # "" =>
              /\ prompts = {Len(m)}
              /\ m[Len(m)].blk = v.id
              /\ Len(m[Len(m)].cb) = 3 /\ m[Len(m)].cb[1] = "video"
              /\ IntOf(<<m[Len(m)].cb[2]>>) = tasks[i].uid
              /\ IntOf(<<m[Len(m)].cb[3]>>) = v.id
              /\ \A n \in 1..Len(m) : m[n].kind # "video_link"

\* no call sends a block that comes after a video block it has met, and the
\* call returns in the step in which it reaches the video block
NothingAfterVideo ==
    \A i \in TaskIds : \A k \in CallPos(i) : \A v \in VideosOf(i) :
        /\ Row(sent[tasks[i].uid][k].blk).position <= v.position
        /\ tasks[i].last = v.id => tasks[i].out = "video"

\* C14: a render that reaches an active video block with a video reference
\* sends exactly one watch prompt, whose control encodes (user_id,
\* block_id), sends no video link, and returns: no later block of the flow
\* is sent by that call.
C14_VideoBlockStops == OneWatchPrompt /\ NothingAfterVideo

\* C14 witness: a render of day2 has returned at its video block; the chat
\* ends with the watch prompt, time has passed since, and the text block
\* that follows the video in day2 has not been sent.
C14_Witness ==
    \E i \in VideoCalls :
        LET u == tasks[i].uid
            v == Row(tasks[i].last)
        IN /\ v.video # "" /\ tasks[i].pc = "done"
           /\ sent[u] # <<>> /\ sent[u][Len(sent[u])].kind = "video_gate"
           /\ sent[u][Len(sent[u])].call = i
           /\ sent[u][Len(sent[u])].at < now
           /\ \E r \in blocks : /\ r.flow = v.flow /\ r.is_active = 1
                                /\ r.position > v.position
                                /\ \A n \in 1..Len(sent[u]) : sent[u][n].blk # r.id

\* this step is a press of a video control that got as far as the link: the
\* last message of the chat of u is the new video link
VideoPressed(u) ==
    /\ Len(sent'[u]) = Len(sent[u]) + 1
    /\ sent'[u][Len(sent'[u])].kind = "video_link"

\* what such a press leaves: one pending job resume:<flow>:<position + 1>
\* of the user, due after the pause stored for the block, and no render call
ResumeLeft(u) ==
    LET b == Row(sent'[u][Len(sent'[u])].blk)
        key == <<"resume">> \o b.flow \o <<ToString(b.position + 1)>>
        rows == {k \in 1..Len(jobs') : jobs'[k].user_id = u /\ jobs'[k].flow = key}
    IN /\ b.video # ""
       /\ Cardinality(rows) = 1
       /\ \A k \in rows : jobs'[k].is_done = 0 /\ jobs'[k].run_at_ts = now + StoredPause(b)
       /\ tasks' = tasks

\* C15 as stated: a press of the video control of a block with a video
\* reference sends the link and then enqueues resume:<flow>:<position + 1>
\* with run_at = now + the delay stored for the block, and renders nothing
\* inline.
C15_LinkThenResume ==
    [][\A u \in Users : VideoPressed(u) => ResumeLeft(u)]_vars

\* the user id a control payload gate:<uid>:.. or video:<uid>:.. encodes
Recipient(data) == IntOf(<<data[2]>>)

\* the presses, received in this step, of a control by someone who is not
\* its recipient
ForeignPresses == {a \in acks' \ acks : a.by # Recipient(a.data)}

\* such a press leaves the whole state of the bot as it was
ForeignPressInert ==
    ForeignPresses # {} =>
        UNCHANGED <<jobs, upserts, pressed, tasks, sent, unlocked, locks,
                    running, sched, flowModes, modes, triggers, blocks, actions,
                    safe, wire>>

\* every render a gate press has called, every Gate-Pressed record and
\* every video link goes back to a press made by the recipient
OnlyRecipientActs ==
    /\ \A p \in Presses : [by |-> tasks[p].uid, data |-> tasks[p].key] \in acks
    /\ \A m \in pressed : \E a \in acks : /\ a.by = m[1] /\ Recipient(a.data) = m[1]
                                          /\ a.data[1] = "gate"
                                          /\ IntOf(<<a.data[3]>>) = m[2]
    /\ \A u \in Users : \A n \in 1..Len(sent[u]) :
          sent[u][n].kind = "video_link"
              => [by |-> u, data |-> _video_cb(u, sent[u][n].blk)] \in acks

\* C16: a gate or video acknowledgment pressed by a user other than the one
\* encoded in the control payload changes nothing: no Gate-Pressed record,
\* no job marked done or enqueued, no render call, no message.
C16_ForeignPressRejected == [][ForeignPressInert]_vars /\ []OnlyRecipientActs

\* C16 witness: user 2 has pressed a gate control and a video control that
\* were sent to user 1; neither has a record, a render call or a link of
\* its own to show, and user 2 has no job.
C16_Witness ==
    \E g, v \in acks :
        /\ g.by = 2 /\ Recipient(g.data) = 1 /\ g.data[1] = "gate"
        /\ v.by = 2 /\ Recipient(v.data) = 1 /\ v.data[1] = "video"
        /\ [by |-> 1, data |-> g.data] \notin acks
        /\ [by |-> 1, data |-> v.data] \notin acks
        /\ \A p \in Presses : tasks[p].key # g.data
        /\ <<1, IntOf(<<g.data[3]>>)>> \notin pressed
        /\ \A n \in 1..Len(sent[1]) : sent[1][n].kind # "video_link"
        /\ \A k \in 1..Len(jobs) : jobs[k].user_id # 2
        /\ sent[2] = <<>>

\* the mode of f in the cache as the start event of this step leaves it
RefreshedMode(f) ==
    IF f \in DOMAIN flowModes' /\ flowModes'[f] # "" THEN flowModes'[f] ELSE "off"

\* the triggers for which a start event of this step enqueues a job
Firing ==
    {tr \in triggers : /\ tr.is_active = 1 /\ tr.offset_seconds >= 0
                       /\ RefreshedMode(tr.flow) = "auto"}

\* a start event of u leaves one pending job flow:<f> at now + offset for
\* each such trigger, and every other row of the job store as it was
StartEnqueues(u) ==
    /\ \A tr \in Firing :
          LET rows == {k \in 1..Len(jobs') : /\ jobs'[k].user_id = u
                                             /\ jobs'[k].flow = <<"flow">> \o tr.flow}
          IN /\ Cardinality(rows) = 1
             /\ \A k \in rows : /\ jobs'[k].is_done = 0
                                /\ jobs'[k].run_at_ts = now + tr.offset_seconds
    /\ \A k \in 1..Len(jobs') :
          (\A tr \in Firing : ~(jobs'[k].user_id = u
                                /\ jobs'[k].flow = <<"flow">> \o tr.flow))
              => k <= Len(jobs) /\ jobs'[k] = jobs[k]
    /\ Len(jobs') >= Len(jobs)
    /\ "get_flow_modes" \notin faulty => flowModes' = modes

NewUpserts == upserts' \ upserts

\* an upsert for the key of a job that is marked done leaves that row, and
\* no second one, pending with the run_at of the call
DoneJobRearmed ==
    \A k \in 1..Len(jobs) : \A h \in NewUpserts :
        (jobs[k].is_done = 1 /\ h.user_id = jobs[k].user_id /\ h.flow = jobs[k].flow)
            => /\ jobs'[k].is_done = 0
               /\ jobs'[k].run_at_ts = h.run_at_ts
               /\ \A j \in 1..Len(jobs') :
                     (jobs'[j].user_id = h.user_id /\ jobs'[j].flow = h.flow) => j = k

\* a pending job whose run_at is reached is in the result of fetch_due_jobs
DueIsFetched ==
    \A k \in 1..Len(jobs) :
        (jobs[k].is_done = 0 /\ jobs[k].run_at_ts <= now)
            => \E n \in 1..Len(fetch_due_jobs(jobs, now, FETCH_LIMIT)) :
                   fetch_due_jobs(jobs, now, FETCH_LIMIT)[n].id = k

\* C18: upsert_job for a (user_id, job_key) whose job is marked done makes
\* that job pending again with the new run_at, and from that run_at on the
\* scheduler's fetch returns it, so it is dispatched again.
C18_UpsertRearms == [][DoneJobRearmed]_vars /\ []DueIsFetched

\* C18 witness: a job that had been dispatched and marked done was enqueued
\* again, and after its new run_at the scheduler has dispatched it a second
\* time.
C18_Witness ==
    \E i, j \in TaskIds : \E h \in upserts :
        /\ i < j
        /\ tasks[i].kind = "job" /\ tasks[j].kind = "job"
        /\ tasks[i].jid = tasks[j].jid /\ tasks[i].pc = "done"
        /\ h.user_id = tasks[j].uid /\ h.flow = tasks[j].key
        /\ h.n = 2 /\ h.prev < h.run_at_ts
        /\ jobs[tasks[j].jid].run_at_ts = h.run_at_ts
        /\ tasks[j].called >= h.run_at_ts

\* the dispatch tasks that are executing their job body: past the entry of
\* "async with _JOB_SEM" and not yet ended
InBody == {i \in TaskIds : tasks[i].kind = "job" /\ tasks[i].pc \notin {"sem", "done"}}

\* C19: at no time are more than JOBS_CONCURRENCY dispatches executing their
\* job body; a dispatch enters its body only while fewer are inside.
C19_ConcurrencyLimit ==
    /\ [](Cardinality(InBody) <= JOBS_CONCURRENCY)
    /\ [][\A i \in TaskIds :
             (tasks[i].pc = "sem" /\ tasks'[i].pc # "sem")
                 => Cardinality(InBody) < JOBS_CONCURRENCY]_vars

\* C19 witness: JOBS_CONCURRENCY dispatches are inside their body, asleep in
\* the pause of a block, and a further dispatched job, due for more than a
\* second, is still waiting for the semaphore.
C19_Witness ==
    /\ Cardinality(InBody) = JOBS_CONCURRENCY
    /\ \A i \in InBody : tasks[i].pc \in {"block", "gate"} /\ tasks[i].wake > now
    /\ \E w \in TaskIds : /\ tasks[w].kind = "job" /\ tasks[w].pc = "sem"
                          /\ tasks[w].jid \in running
                          /\ jobs[tasks[w].jid].run_at_ts < now

\* every id in the in-flight set belongs to a dispatch task that has not
\* ended
InFlightIsRunning == \A jid \in running : Dispatches(jid) # {}

\* a job whose dispatch has ended and that is still pending and due gets a
\* new dispatch task from the loop over the fetch result
Redispatchable ==
    \A i \in TaskIds :
        LET jid == tasks[i].jid
        IN (tasks[i].kind = "job" /\ tasks[i].pc = "done" /\ Dispatches(jid) = {}
            /\ jobs[jid].is_done = 0 /\ jobs[jid].run_at_ts <= now)
               => LET d == Dispatch(fetch_due_jobs(jobs, now, FETCH_LIMIT),
                                    running, tasks)
                  IN \E j \in (Len(tasks) + 1)..Len(d.tasks) : d.tasks[j].jid = jid

\* C20: the end of a dispatch task removes its job id from the in-flight
\* set also when mark_job_done fails: no id stays in the set without a
\* running dispatch task, and a job left pending by a failed mark is
\* dispatched again by the next tick that fetches it.
C20_DiscardedAlways ==
    /\ [](InFlightIsRunning /\ Redispatchable)
    /\ [][\A i \in Finishing : tasks[i].jid \notin running']_vars

\* C20 witness: mark_job_done failed for a dispatched job; the job is still
\* pending, its id left the in-flight set, and a later tick has dispatched
\* it again.
C20_Witness ==
    \E i, j \in TaskIds :
        /\ "mark_job_done" \in faulty
        /\ i < j
        /\ tasks[i].kind = "job" /\ tasks[i].pc = "done"
        /\ tasks[j].kind = "job" /\ tasks[j].jid = tasks[i].jid
        /\ \A h \in upserts : (h.user_id = tasks[i].uid /\ h.flow = tasks[i].key)
                                 => h.n = 1
        /\ jobs[tasks[i].jid].is_done = 0
        /\ jobs[tasks[i].jid].run_at_ts < now

\* what fetch_due_jobs(limit) returns on the present store: pending rows whose
\* run_at is reached, each once, no more than limit, the earliest first
FetchContract(limit) ==
    LET due == fetch_due_jobs(jobs, now, limit)
    IN /\ Len(due) <= limit
       /\ Len(due) = limit \/ Len(due) = Cardinality(DueIds(jobs, now))
       /\ \A n \in 1..Len(due) :
             /\ due[n].id \in 1..Len(jobs)
             /\ jobs[due[n].id].is_done = 0
             /\ jobs[due[n].id].run_at_ts <= now
             /\ due[n].run_at_ts = jobs[due[n].id].run_at_ts
       /\ \A m, n \in 1..Len(due) :
             m < n => /\ due[m].id # due[n].id
                      /\ due[m].run_at_ts <= due[n].run_at_ts
       /\ \A n \in 1..Len(due) : \A k \in DueIds(jobs, now) :
             jobs[k].run_at_ts < due[n].run_at_ts
                 => \E m \in 1..Len(due) : due[m].id = k

\* the dispatch tasks the scheduler creates in this step
Dispatched == {i \in (Len(tasks) + 1)..Len(tasks') : tasks'[i].kind = "job"}

\* the job of every task created is, at that moment, pending
DispatchedPending == \A i \in Dispatched : jobs[tasks'[i].jid].is_done = 0

\* the job of every task created has, at that moment, reached its run_at
DispatchedDue == \A i \in Dispatched : jobs[tasks'[i].jid].run_at_ts <= now

\* C21: fetch_due_jobs(limit) returns only pending jobs whose run_at is
\* reached, at most limit of them, in ascending run_at order; and the
\* scheduler never dispatches a job before its run_at nor a job that is
\* marked done.
C21_DispatchOnlyDue ==
    /\ [](\A limit \in {0, 1, 2, FETCH_LIMIT} : FetchContract(limit))
    /\ [][DispatchedPending /\ DispatchedDue]_vars

\* the dispatches of action jobs that run the branch of their key in this step
ActionFiring ==
    {i \in TaskIds : /\ tasks[i].kind = "job" /\ StartsWith(tasks[i].key, "action")
                     /\ tasks[i].pc = "sem" /\ tasks'[i].pc # "sem"}

\* the target the store holds now for the action of a job key: none when the
\* action is deleted or switched off
StoredTarget(key) ==
    LET hits == {a \in actions : ActionKey(a) = key /\ a.is_active = 1}
    IN IF hits = {} THEN EmptyStr ELSE (CHOOSE a \in hits : TRUE).target_flow

\* a firing action job calls render_flow for the target stored at that
\* moment, from the first position; without such a target it calls nothing
FiresStoredTarget ==
    \A i \in ActionFiring :
        IF StoredTarget(tasks[i].key) = EmptyStr
        THEN tasks'[i].pc = "mark" /\ tasks'[i].called = 0
        ELSE /\ tasks'[i].pc = "lock" /\ tasks'[i].called = now
             /\ tasks'[i].flow = StoredTarget(tasks[i].key)
             /\ tasks'[i].start = 0

\* the flow a block was created in
FlowOfBlock(block_id) == (CHOOSE r \in SeedBlocks : r.id = block_id).flow

\* what the dispatch of an action job sends are blocks of the flow it resolved
\* when it fired; a dispatch that resolved no target sends nothing
ActionRendersResolved ==
    \A i \in TaskIds : \A n \in 1..Len(sent[tasks[i].uid]) :
        LET m == sent[tasks[i].uid][n]
        IN (tasks[i].kind = "job" /\ StartsWith(tasks[i].key, "action") /\ m.call = i)
              => /\ tasks[i].called # 0
                 /\ m.blk # 0 => FlowOfBlock(m.blk) = tasks[i].flow

\* the dispatch of an action job ends with the job marked done
ActionMarkedDone ==
    \A i \in Finishing : StartsWith(tasks[i].key, "action")
                            => jobs'[tasks[i].jid].is_done = 1

\* C22: an action:<id> job renders the target flow its action has in the
\* store when the job fires, not the one it had when the job was scheduled;
\* when the action is deleted or deactivated by then, nothing is rendered,
\* and in both cases the job is marked done.
C22_TargetAtFireTime ==
    /\ [][FiresStoredTarget /\ ActionMarkedDone]_vars
    /\ []ActionRendersResolved

\* C22 witness: the job action:1 was enqueued when day2 ended, with day3 as
\* the target of the action; the console then changed the target to day1,
\* and the job, fired a second later, has sent the first block of day1 and
\* nothing of day3.
C22_Witness ==
    \E i \in TaskIds : \E h \in upserts :
        /\ tasks[i].kind = "job" /\ tasks[i].key = <<"action", "1">>
        /\ h.user_id = tasks[i].uid /\ h.flow = tasks[i].key /\ h.n = 1
        /\ h.run_at_ts < tasks[i].called
        /\ StoredTarget(tasks[i].key) = D1 /\ tasks[i].flow = D1
        /\ \E a \in SeedActions : a.id = 1 /\ a.target_flow = D3
        /\ \E n \in 1..Len(sent[tasks[i].uid]) :
              /\ sent[tasks[i].uid][n].call = i
              /\ sent[tasks[i].uid][n].blk = 6
        /\ \A n \in 1..Len(sent[tasks[i].uid]) : sent[tasks[i].uid][n].blk # 9

\* the dispatches of recurring broadcast jobs that end in this step
RepeatFinishing ==
    {i \in Finishing : /\ StartsWith(tasks[i].key, "broadcast")
                       /\ BroadcastRepeat(tasks[i].key) > 0}

\* the end of such a dispatch leaves its job pending, due one interval later
RepeatLeftPending ==
    \A i \in RepeatFinishing :
        /\ jobs'[tasks[i].jid].flow = tasks[i].key
        /\ jobs'[tasks[i].jid].run_at_ts = now + BroadcastRepeat(tasks[i].key)
        /\ jobs'[tasks[i].jid].is_done = 0

\* C23: when the scheduler has finished executing a broadcast job whose
\* repeat is greater than 0, the job of that key is pending with
\* run_at = execution time + repeat, so that it fires again an interval later.
C23_BroadcastRepeats == [][RepeatLeftPending]_vars

\* the render_flow calls made by resume jobs
ResumeCalls ==
    {i \in TaskIds : /\ tasks[i].kind = "job" /\ StartsWith(tasks[i].key, "resume")
                     /\ tasks[i].called # 0}

\* the ids of the blocks a call has sent something of, and where in the chat
SentBlocks(i) ==
    {sent[tasks[i].uid][n].blk : n \in CallPos(i)} \ {0}

\* the rows of the flow as the call has read them
Loaded(i) == {tasks[i].bl[k] : k \in 1..Len(tasks[i].bl)}

\* the active rows of the flow of a call at or after its start position
FromStart(i) ==
    {r \in Loaded(i) : /\ r.flow = tasks[i].flow /\ r.is_active = 1
                       /\ r.position >= tasks[i].start}

\* a row at which render_flow returns: a video block or a gate
Stops(r) == r.type = "video" \/ r.gate_next_flow # EmptyStr

\* the rows of FromStart up to and including the first one render_flow
\* returns at
UpToStop(i) ==
    {r \in FromStart(i) :
        \A q \in FromStart(i) : q.position < r.position => ~Stops(q)}

\* a call sends only active blocks of its flow at or after its start
\* position, in ascending position order
OnlyFromStart ==
    \A i \in ResumeCalls :
        /\ tasks[i].start > 0
        /\ tasks[i].flow \o <<ToString(tasks[i].start)>> = Tail(tasks[i].key)
        /\ SentBlocks(i) \subseteq {r.id : r \in FromStart(i)}
        /\ \A m, n \in CallPos(i) : \A r, q \in Loaded(i) :
              (m < n /\ r.id = sent[tasks[i].uid][m].blk
                     /\ q.id = sent[tasks[i].uid][n].blk)
                  => r.position <= q.position

\* C24 as stated: a resume:<flow>:<pos> job renders exactly the active
\* blocks of flow whose position is >= pos, in ascending position order, and
\* sends no block whose position is below pos.
C24_ResumeAllFromPos ==
    /\ OnlyFromStart
    /\ \A i \in ResumeCalls :
          tasks[i].pc = "done" => SentBlocks(i) = {r.id : r \in FromStart(i)}

\* C24 amended: a resume:<flow>:<pos> job renders, in ascending position
\* order, the active blocks of flow whose position is >= pos up to and
\* including the first gate or video block among them (all of them when
\* there is none), and sends no block whose position is below pos.
C24_ResumeFromPosToStop ==
    /\ OnlyFromStart
    /\ \A i \in ResumeCalls :
          tasks[i].pc = "done" => SentBlocks(i) = {r.id : r \in UpToStop(i)}

\* C24 witness: the job resume:bonus:2, enqueued by the press of the watch
\* control of the video at position 1, has ended: it has sent block 12
\* (position 3), then block 13 (position 4, a gate) and its prompt, neither
\* the video before them nor the inactive block 11, and block 14 behind the
\* gate is not sent.
C24_Witness ==
    \E i \in ResumeCalls :
        /\ tasks[i].key = <<"resume", "bonus", "2">> /\ tasks[i].pc = "done"
        /\ tasks[i].out = "gate"
        /\ SentBlocks(i) = {12, 13}
        /\ \E n \in CallPos(i) : sent[tasks[i].uid][n].kind = "gate_prompt"
        /\ \E r \in FromStart(i) : r.id = 14

\* the users whose flag is set in this step
Unlocking == unlocked' \ unlocked

\* the flag is set by the step in which a render of the course-complete flow
\* for that user passes the end of its block list, and by no other step
UnlockedAtCourseEnd ==
    /\ \A u \in Unlocking :
          \E i \in Ending : /\ tasks[i].uid = u
                            /\ tasks[i].flow = COURSE_COMPLETE_FLOW
                            /\ NextIdx(tasks[i]) = 0
    /\ \A i \in Ending :
          tasks[i].flow = COURSE_COMPLETE_FLOW => tasks[i].uid \in unlocked'
    /\ \A i \in TaskIds :
          (tasks'[i].out # tasks[i].out /\ tasks'[i].out \in {"gate", "video"})
              => Unlocking = {}

\* the flag is never reset
StaysUnlocked == unlocked \subseteq unlocked'

NextAfter(t, k) ==
    LET ks == {m \in (k + 1)..Len(t.bl) : ~Skipped(t, t.bl[m])}
    IN IF ks = {} THEN 0 ELSE CHOOSE m \in ks : \A n \in ks : m <= n

\* task i sends, in this step, content or attachment of a block that is not
\* a video, and fewer messages arrive than the block has: a delivery failed
\* after its retries
DeliveryFails(i) ==
    LET t == tasks[i]
        k == NextIdx(t)
    IN /\ t.pc = "block" /\ tasks'[i] # t /\ k # 0
       /\ t.bl[k].type # "video"
       /\ Len(sent'[t.uid]) - Len(sent[t.uid])
            < Len(ContentMsgs(i, t, t.bl[k]) \o AttachmentMsgs(i, t.bl[k]))

\* the gate part of the block of task i raises in this step
GateFails(i) == tasks[i].pc = "gate" /\ tasks'[i].pc = "block"

\* after a failure in a block the call is still inside the loop, holding the
\* lock, and the block it goes on with is the next active one in order (or
\* the gate part of the same block after a failed delivery)
FailureContinues ==
    \A i \in TaskIds :
        /\ DeliveryFails(i) =>
              /\ tasks'[i].pc \in {"block", "gate"}
              /\ locks'[tasks[i].uid] = i
              /\ IF tasks'[i].pc = "gate"
                 THEN tasks'[i].idx = NextIdx(tasks[i])
                 ELSE NextIdx(tasks'[i]) = NextAfter(tasks[i], NextIdx(tasks[i]))
        /\ GateFails(i) =>
              /\ locks'[tasks[i].uid] = i
              /\ NextIdx(tasks'[i]) = NextAfter(tasks[i], tasks[i].idx)

\* a call that is inside the loop leaves it only at the end of the block
\* list, at a video block or after the prompt of a gate
LeavesLoopOnlyAtStop ==
    \A i \in TaskIds :
        (tasks[i].pc \in {"block", "gate"} /\ tasks'[i].pc \notin {"block", "gate"})
            => \/ tasks'[i].out = "end" /\ NextIdx(tasks[i]) = 0
               \/ tasks'[i].out = "video"
                  /\ tasks[i].bl[NextIdx(tasks[i])].type = "video"
               \/ tasks'[i].out = "gate" /\ tasks[i].pc = "gate"

\* C26: when the delivery of a block fails after its retries, or the
\* processing of a block raises, render_flow goes on with the next active
\* block of the flow in order; a failure never ends the render.
C26_BlockFailureContinues == [][FailureContinues /\ LeavesLoopOnlyAtStop]_vars

\* C26 witness: in the render of day1 the text of block 6 was given up after
\* the retries; the same call has then sent the attachment of block 6, the
\* text of block 5 and the prompt of its gate.
C26_Witness ==
    \E i \in TaskIds :
        LET kinds(b) == {sent[tasks[i].uid][n].kind :
                            n \in {m \in CallPos(i) : sent[tasks[i].uid][m].blk = b}}
        IN /\ "send" \in faulty
           /\ tasks[i].flow = D1 /\ tasks[i].pc = "done" /\ tasks[i].out = "gate"
           /\ kinds(6) = {"attachment"}
           /\ kinds(5) = {"text", "gate_prompt"}

\* the fetch of this tick raises: there are rows to return and the loop goes
\* back to sleep without them
FetchFails ==
    /\ sched.pc \in {"fetch", "sleep"} /\ sched' # sched /\ sched'.pc = "sleep"
    /\ fetch_due_jobs(jobs, now, FETCH_LIMIT) # <<>>

\* a failed fetch changes no job, dispatches nothing, remembers what it left
\* behind and the loop polls again a second later
FailedFetchRetries ==
    FetchFails => /\ jobs' = jobs /\ running' = running /\ tasks' = tasks
                  /\ sched'.wake = now + 1
                  /\ sched'.missed = sched.missed \cup (DueIds(jobs, now) \ running)

\* the loop is always at one of its three steps
LoopRuns == sched.pc \in {"sleep", "fetch", "loop"}

\* while a job is pending and due, time passes only while the loop sleeps and
\* not beyond its next poll
LoopKeepsPolling ==
    (now' # now /\ DueIds(jobs, now) # {})
        => sched.pc = "sleep" /\ now < sched.wake /\ now' <= sched.wake

\* a fetch that succeeds returns every job a failed fetch left behind that is
\* still pending and due, and the dispatch that follows puts every id of the
\* result in flight
LaterFetchDispatches ==
    /\ (sched.pc \in {"fetch", "sleep"} /\ sched'.pc = "loop")
          => \A k \in sched.missed :
                k \in DueIds(jobs, now)
                   => \E n \in 1..Len(sched'.due) : sched'.due[n].id = k
    /\ (sched.pc = "loop" /\ sched'.pc = "sleep")
          => \A n \in 1..Len(sched.due) : sched.due[n].id \in running'

\* C27: when the fetch of the due jobs raises on one tick, the scheduler loop
\* keeps running and fetches again a second later; the jobs that were due
\* stay pending and are dispatched when a later fetch succeeds.
C27_FetchFailureRetried ==
    []LoopRuns
    /\ [][FailedFetchRetries /\ LoopKeepsPolling /\ LaterFetchDispatches]_vars

\* C27 witness: a job that a failed fetch left behind is in flight, so a later
\* fetch has returned it and the loop has dispatched it.
C27_Witness ==
    /\ "fetch_due_jobs" \in faulty
    /\ \E k \in sched.missed : k \in running

\* the calls of fn() that return, among the SEND_RETRIES the call can make
Returning == {n \in 1..SEND_RETRIES : safe.outcomes[n] = "return"}

\* the first of them
FirstReturning == CHOOSE n \in Returning : \A m \in Returning : n <= m

\* C28: a delivery made through _safe_call calls fn() at most SEND_RETRIES
\* times; it returns the result of the first call that succeeds, returns None
\* after SEND_RETRIES failed calls, and never raises to its caller.
C28_SafeCallBounded ==
    /\ safe.calls <= SEND_RETRIES
    /\ safe.pc # "raised"
    /\ safe.pc = "returned" =>
          IF Returning = {}
          THEN safe.result = None /\ safe.calls = SEND_RETRIES
          ELSE safe.result = FirstReturning /\ safe.calls = FirstReturning

\* C28 witness: fn() has raised each of the four kinds of exception once, in
\* SEND_RETRIES calls, and the call has returned None.
C28_Witness ==
    /\ safe.pc = "returned" /\ safe.result = None /\ safe.calls = SEND_RETRIES
    /\ {safe.outcomes[n] : n \in 1..SEND_RETRIES} = Raised

\* task i is inside 'async with _lock(chat_id)'
Holding(i) == tasks[i].pc \in {"block", "gate"} /\ locks[tasks[i].uid] = i

\* while a render holds the lock of its user, a render for another user that
\* waits for a free lock can take it, and one that holds its own lock and is
\* not in a delay can take its next step
OthersNotBlocked ==
    \A i, j \in TaskIds :
        (tasks[i].uid # tasks[j].uid /\ Holding(i))
            => /\ (tasks[j].pc = "lock" /\ locks[tasks[j].uid] = 0)
                     => ENABLED RenderBegin(j)
               /\ (Holding(j) /\ tasks[j].pc = "block" /\ now >= tasks[j].wake)
                     => ENABLED RenderBlock(j)
               /\ (Holding(j) /\ tasks[j].pc = "gate" /\ now >= tasks[j].wake)
                     => ENABLED RenderGate(j)

\* the lock of a user is taken by a render for that user only
LockIsPerUser ==
    \A u \in Users : locks'[u] # locks[u] /\ locks'[u] # 0
                        => tasks[locks'[u]].uid = u /\ locks[u] = 0

\* C29: renders for different users do not block each other: while a render
\* for user A is suspended in a delay or holds A's lock, a render for user B
\* can take B's lock and send its messages.
C29_UsersIndependent == []OthersNotBlocked /\ [][LockIsPerUser]_vars

\* C29 witness: a render for one user holds that user's lock since before
\* now and sleeps in a delay; a render for the other user, called after the
\* first had sent, holds the other lock and has sent a message now.
C29_Witness ==
    \E i, j \in TaskIds :
        /\ tasks[i].uid # tasks[j].uid
        /\ Holding(i) /\ tasks[i].wake > now
        /\ Holding(j)
        /\ \E a \in 1..Len(sent[tasks[i].uid]) : \E b \in 1..Len(sent[tasks[j].uid]) :
              /\ sent[tasks[i].uid][a].call = i /\ sent[tasks[j].uid][b].call = j
              /\ sent[tasks[i].uid][a].at < tasks[j].called
              /\ sent[tasks[j].uid][b].at = now

\* delete_flow(f) is carried out in this step
Deleting(f) == modes[f] # "" /\ modes'[f] = ""

\* a job with this key renders flow f when it is dispatched
RendersFlow(key, f) ==
    \/ key = _job_flow(f)
    \/ StartsWith(key, "resume") /\ Len(key) = 3 /\ <<key[2]>> = f
    \/ StartsWith(key, "broadcast") /\ BroadcastFlow(key) = f
    \/ StartsWith(key, "action") /\ Len(key) = 2 /\ IsNum(key[2])
       /\ ActionTarget(get_all_flow_actions, ParseInt(key[2])) = f

\* after delete_flow(f) the store has no block and no trigger of f
BlocksAndTriggersGone ==
    \A f \in FlowNames :
        Deleting(f) => /\ \A r \in blocks' : r.flow # f
                       /\ \A t \in triggers' : t.flow # f

\* after delete_flow(f) the store has no pending job that renders f
PendingJobsGone ==
    \A f \in FlowNames :
        Deleting(f) => \A k \in 1..Len(jobs') :
                          jobs'[k].is_done = 0 => ~RendersFlow(jobs'[k].flow, f)

\* delete_flow changes no job row at all: no key is a bare flow name
DeleteKeepsJobs == \A f \in FlowNames : Deleting(f) => jobs' = jobs

\* C30: after delete_flow(name) the store holds no content block of the
\* flow, no trigger for it and no pending job that would render it, in
\* particular no job with the key flow:<name>.
C30_DeleteCascades == [][BlocksAndTriggersGone /\ PendingJobsGone]_vars

\* the dispatch has called render_flow(uid, flow, start)
RendersFrom(job, flow, start) ==
    job.pc = "lock" /\ job.flow = flow /\ job.start = start

\* the target of the stored action with this id
TargetOfAction(aid) == (CHOOSE a \in actions : a.id = aid).target_flow

\* the key is parsed back to the fields it was built from
ParsedBack ==
    wire.pc = "parsed" =>
        IF wire.kind = "flow" THEN RendersFrom(wire.job, wire.flow, 0)
        ELSE IF wire.kind = "resume" THEN RendersFrom(wire.job, wire.flow, wire.n)
        ELSE IF wire.kind = "gate"
        THEN /\ wire.job.pc = "remind"
             /\ wire.job.block_id = wire.n
             /\ wire.job.next_flow = wire.flow
        ELSE RendersFrom(wire.job, TargetOfAction(wire.n), 0)

\* C31: for every job kind the key built by the producer is parsed by the
\* scheduler back to the same fields (flow; flow and position; block and next
\* flow; action), also for flow names that contain ':'.
C31_KeyRoundTrip == ParsedBack

\* the same for flow names without ':' and for the kinds other than resume
ParsedBackElsewhere ==
    (Len(wire.flow) = 1 \/ wire.kind # "resume") => ParsedBack

\* a resume key of a flow with ':' in its name is split inside the name: no
\* render at all
ResumeWithColonDropped ==
    (wire.pc = "parsed" /\ wire.kind = "resume" /\ Len(wire.flow) > 1)
        => wire.job.pc = "mark" /\ wire.job.flow = EmptyStr

\* the render_flow calls of welcome that have returned
WelcomeRenders ==
    {i \in TaskIds : tasks[i].flow = W /\ tasks[i].out \in {"gate", "video", "end"}}

\* the messages of call i that carry the main reply menu
MenusOf(i) ==
    {k \in 1..Len(sent[tasks[i].uid]) :
        /\ sent[tasks[i].uid][k].call = i
        /\ sent[tasks[i].uid][k].kind = "welcome_menu"}

\* C32: in every render of welcome the main reply menu is attached to
\* exactly one outbound message, whatever the blocks before the first gate.
C32_MenuExactlyOnce == \A i \in WelcomeRenders : Cardinality(MenusOf(i)) = 1

\* no render of welcome attaches the menu to more than one message
MenuAtMostOnce == \A i \in WelcomeRenders : Cardinality(MenusOf(i)) <= 1

\* the menu is missing exactly when the first active block of welcome with a
\* text is not of type text (a buttons block), or no block of welcome has a
\* text
MenuMissingWithoutText ==
    \A i \in WelcomeRenders :
        MenusOf(i) = {} <=>
            ~\E k \in 1..Len(tasks[i].bl) :
                /\ tasks[i].bl[k].is_active = 1
                /\ tasks[i].bl[k].text # ""
                /\ tasks[i].bl[k].type \in {"text", ""}

\* the block at which the render of task i is
ReachedGate(i) == tasks[i].bl[tasks[i].idx]

\* the render returns at a gate that has a reminder in this step
Reaching(i) ==
    /\ tasks[i].pc = "gate" /\ tasks'[i].out = "gate"
    /\ ReachedGate(i).gate_reminder_seconds > 0 /\ ReachedGate(i).id > 0

\* every reach of a gate, the second as the first, leaves exactly one job for
\* (user, gate key), pending, with run_at counted from this reach
ReachReschedules ==
    \A i \in TaskIds :
        Reaching(i) =>
            LET key == _job_gate(ReachedGate(i).id, ReachedGate(i).gate_next_flow)
                rows == {k \in 1..Len(jobs') : /\ jobs'[k].user_id = tasks[i].uid
                                               /\ jobs'[k].flow = key}
            IN /\ Cardinality(rows) = 1
               /\ \A k \in rows :
                     /\ jobs'[k].is_done = 0
                     /\ jobs'[k].run_at_ts = now + ReachedGate(i).gate_reminder_seconds

\* the dispatch of a reminder job that was scheduled more than once and is
\* pending (no press since the last reach) comes to its branch in this step
SecondReminderStarts(i) ==
    /\ tasks[i].kind = "job" /\ tasks[i].pc = "sem" /\ tasks'[i].pc # "sem"
    /\ StartsWith(tasks[i].key, "gate")
    /\ jobs[tasks[i].jid].is_done = 0
    /\ \E h \in upserts : /\ h.user_id = tasks[i].uid /\ h.flow = tasks[i].key
                          /\ h.n = 2

\* ... and the reminder is sent, whatever the gate-pressed records
ReminderAlwaysSent ==
    \A i \in TaskIds : SecondReminderStarts(i) => tasks'[i].pc = "remind"

\* ... and the reminder is sent exactly when the user has never pressed the
\* gate; with a gate-pressed record the job is a silent no-op
ReminderUnlessEverPressed ==
    \A i \in TaskIds :
        SecondReminderStarts(i) =>
            IF <<tasks[i].uid, IntOf(<<tasks[i].key[2]>>)>> \in pressed
            THEN tasks'[i].pc = "mark" /\ tasks'[i].out = "pressed"
            ELSE tasks'[i].pc = "remind"

\* C33 as stated: a second reach of a gate reschedules the reminder, and
\* without a press after the second reach the reminder is sent when the job
\* becomes due, also when the user had pressed the gate after the first reach.
C33_ReminderAfterSecondReach == [][ReachReschedules /\ ReminderAlwaysSent]_vars

\* C33 amended: a second reach of a gate reschedules the reminder (one
\* pending job with run_at from the second reach); when the job becomes due
\* without a press after the second reach, the reminder is sent only if the
\* user has never pressed that gate, and is suppressed otherwise.
C33_ReminderUnlessEverPressed ==
    [][ReachReschedules /\ ReminderUnlessEverPressed]_vars

\* C33 witness: user 1 pressed the gate of welcome after the first reach and
\* reached it again; the rescheduled job became due, its dispatch found the
\* gate-pressed record and has ended without a reminder in the chat.
C33_Witness ==
    \E i \in TaskIds : \E h \in upserts :
        /\ tasks[i].kind = "job" /\ tasks[i].pc = "done" /\ tasks[i].out = "pressed"
        /\ h.user_id = tasks[i].uid /\ h.flow = tasks[i].key /\ h.n = 2
        /\ h.run_at_ts <= now /\ h.run_at_ts = jobs[tasks[i].jid].run_at_ts
        /\ \A n \in 1..Len(sent[tasks[i].uid]) :
               sent[tasks[i].uid][n].kind # "gate_reminder"

\* the recipient presses a gate control in this step: the handler has
\* accepted the press and calls render_flow
PressAccepted == Len(tasks') = Len(tasks) + 1 /\ tasks'[Len(tasks')].kind = "cb_gate"

PressedBlock == IntOf(<<tasks'[Len(tasks')].key[3]>>)

\* the control pressed in this step was pressed before
Repress ==
    /\ PressAccepted
    /\ <<tasks'[Len(tasks')].uid, PressedBlock>> \in pressed

\* no step deletes a gate-pressed record; an accepted press leaves the record
\* of its gate, and a second press leaves the records as they were
RecordsKept ==
    /\ pressed \subseteq pressed'
    /\ (PressAccepted /\ PressedBlock > 0)
           => <<tasks'[Len(tasks')].uid, PressedBlock>> \in pressed'
    /\ Repress => pressed' = pressed

\* a second press changes no job and makes no call of render_flow
RepressInert ==
    Repress => jobs' = jobs /\ tasks'[Len(tasks')].pc # "lock"

\* a second press marks the reminder job of the gate done, as the first, and
\* calls render_flow for the next flow of the gate again
RepressRendersAgain ==
    Repress =>
        LET t == tasks'[Len(tasks')]
        IN /\ jobs' = mark_job_done_by_user_flow(jobs, t.uid, ReminderKey(t.key))
           /\ t.pc = "lock" /\ t.flow = SubSeq(t.key, 4, Len(t.key))

\* the presses of a control that was pressed before by the same user
Represses ==
    {p \in Presses : \E q \in Presses : q < p /\ tasks[q].key = tasks[p].key}

\* the render called by a second press has sent nothing
RepressSendsNothing ==
    \A p \in Represses :
        \A n \in 1..Len(sent[tasks[p].uid]) : sent[tasks[p].uid][n].call # p

\* C34: the gate-pressed record is created by the first press and never
\* deleted; a second press of the same control is a no-op that leaves the
\* records, the jobs and the messages delivered as they were.
C34_RepressNoOp == []RepressSendsNothing /\ [][RecordsKept /\ RepressInert]_vars

\* what the handler does instead: the records are kept, the reminder job of
\* the gate is marked done again and the next flow is rendered again
RepressKeepsRecords == [][RecordsKept /\ RepressRendersAgain]_vars

\* user 1 has pressed the control of the gate of welcome a second time; the
\* record is there and the render called by the second press has delivered
\* a block of day1 again
RepressDelivered ==
    \E p \in Represses :
        /\ tasks[p].uid = 1 /\ <<1, 2>> \in pressed
        /\ tasks[p].flow = D1
        /\ \E n \in 1..Len(sent[1]) : sent[1][n].call = p /\ sent[1][n].kind = "text"

----------------------------------------------------------------------------
(* C35 *)

\* the last upsert_job call for the key of dispatch task i, when it was made
\* while i was executing the job
RearmedDuring(i) ==
    {h \in upserts : /\ h.user_id = tasks[i].uid /\ h.flow = tasks[i].key
                     /\ h.during = i}

\* the end of an execution leaves a job that was enqueued during it pending
\* with the run_at of that call
RearmKept ==
    \A i \in Finishing : \A h \in RearmedDuring(i) :
        /\ jobs'[tasks[i].jid].is_done = 0
        /\ jobs'[tasks[i].jid].run_at_ts = h.run_at_ts

\* C35: an upsert_job for (user_id, job_key) made while the job of that key
\* is being executed is not lost: when the execution has finished, the job is
\* pending with the new run_at, and the fetch returns it from then on.
C35_UpsertDuringExecutionKept == [][RearmKept]_vars /\ []DueIsFetched

\* what the finally clause leaves instead: the execution of a flow job for
\* user 1 has finished, the job was enqueued again during it for a later
\* time, and the row is done with that run_at, which no fetch returns
RearmLost ==
    \E i \in TaskIds : \E h \in RearmedDuring(i) :
        /\ tasks[i].pc = "done" /\ tasks[i].uid = 1
        /\ jobs[tasks[i].jid].is_done = 1
        /\ jobs[tasks[i].jid].run_at_ts = h.run_at_ts
        /\ h.run_at_ts >= now
        /\ tasks[i].jid \notin running

----------------------------------------------------------------------------
(* C36 *)

\* a lock is held by a call for its user that is inside the block loop, and
\* every call inside the block loop holds the lock of its user
LockHeldInside ==
    /\ \A u \in Users : locks[u] # 0 => /\ locks[u] \in TaskIds
                                        /\ tasks[locks[u]].uid = u
                                        /\ Holding(locks[u])
    /\ \A i \in TaskIds : tasks[i].pc \in {"block", "gate"} => Holding(i)

\* the calls that return in this step
Exiting ==
    {i \in TaskIds : /\ tasks[i].pc \in {"lock", "block", "gate"}
                     /\ tasks'[i].pc \notin {"lock", "block", "gate"}}

\* a call returns at the end of the flow, at a gate, at a video block or when
\* the blocks cannot be loaded, and leaves the lock of its user free
ExitReleases ==
    \A i \in Exiting : /\ tasks'[i].out \in {"end", "gate", "video", "loadfail"}
                       /\ locks'[tasks[i].uid] = 0

\* the calls that reach 'async with _lock(chat_id)' in this step
Entering ==
    {j \in 1..Len(tasks') : /\ tasks'[j].pc = "lock"
                            /\ (j > Len(tasks) \/ tasks[j].pc # "lock")}

\* a call for a user is never made by the call that holds the lock of that
\* user
NoNestedRender ==
    \A j \in Entering : \A i \in TaskIds :
        (Holding(i) /\ tasks[i].uid = tasks'[j].uid) => tasks'[i] = tasks[i]

\* a queued call gets the lock
QueuedRuns ==
    \A i \in 1..MaxQueue :
        (i <= Len(tasks) /\ tasks[i].pc = "lock")
            ~> (i <= Len(tasks) /\ tasks[i].pc # "lock")

\* C36: every render_flow call that takes the lock of a user releases it on
\* every exit path (end of flow, gate, video block, failure to load the
\* blocks) and never calls render_flow for the same user while it holds the
\* lock; while sends and delays terminate, every queued call for a user
\* eventually runs.
C36_LockReleasedNoDeadlock ==
    /\ []LockHeldInside
    /\ [][ExitReleases /\ NoNestedRender]_vars
    /\ QueuedRuns

\* C36 witness: three calls for user 1 were queued at the same time; one has
\* returned at the gate of welcome, one at the video block of day2, one at the
\* end of day3, each after the delay of its blocks, and the lock is free.
C36_Witness ==
    /\ Len(tasks) = MaxQueue
    /\ \A i \in TaskIds : /\ tasks[i].uid = 1 /\ tasks[i].pc = "done"
                          /\ tasks[i].called = StartTime
    /\ \E i, j, k \in TaskIds :
          /\ tasks[i].out = "gate" /\ tasks[i].flow = W
          /\ tasks[j].out = "video" /\ tasks[j].flow = D2
          /\ tasks[k].out = "end" /\ tasks[k].flow = D3
          /\ \E n \in 1..Len(sent[1]) : sent[1][n].call = i /\ sent[1][n].kind = "gate_prompt"
          /\ \E n \in 1..Len(sent[1]) : sent[1][n].call = j /\ sent[1][n].kind = "video_gate"
          /\ \E n \in 1..Len(sent[1]) : sent[1][n].call = k /\ sent[1][n].blk = 9
    /\ locks[1] = 0
    /\ now > StartTime

\* a call that could not load its blocks has returned and a call queued
\* behind it for the same user has run to its gate
LoadFailureReleases ==
    \E i, j \in TaskIds :
        /\ tasks[i].uid = tasks[j].uid
        /\ tasks[i].out = "loadfail" /\ tasks[i].pc = "done"
        /\ tasks[j].out = "gate" /\ tasks[j].pc = "done"
        /\ locks[tasks[i].uid] = 0

----------------------------------------------------------------------------
(* C37 *)

\* the render_flow calls that return in this step before the end of the
\* block list: at a gate, at a video block, on a failure to load the blocks
Stopping ==
    {i \in Exiting : tasks'[i].out \in {"gate", "video", "loadfail"}}

\* the rows of the user's post-flow action jobs
ActionRows(J, user_id) ==
    {k \in 1..Len(J) : J[k].user_id = user_id /\ Head(J[k].flow) = "action"}

\* a call that returns before the end leaves the action jobs of its user and
\* the state of the user as they were
StopFrame ==
    \A i \in Stopping :
        /\ ActionRows(jobs', tasks[i].uid) = ActionRows(jobs, tasks[i].uid)
        /\ \A k \in ActionRows(jobs, tasks[i].uid) : jobs'[k] = jobs[k]
        /\ \A h \in NewUpserts : Head(h.flow) # "action"
        /\ unlocked' = unlocked
        /\ pressed' = pressed

\* an action job is enqueued only in the step in which a call for its user
\* reaches the end of the block list of the flow the action comes after
OnlyEndSchedules ==
    \A h \in NewUpserts :
        Head(h.flow) = "action"
            => \E i \in Ending : /\ tasks[i].uid = h.user_id
                                 /\ \E a \in ActiveActions(tasks[i].flow) :
                                       h.flow = ActionKey(a)

\* the state of a user changes only when a call for that user reaches the
\* end of the course-complete flow
OnlyEndUnlocks ==
    \A u \in unlocked' \ unlocked :
        \E i \in Ending : tasks[i].uid = u /\ tasks[i].flow = COURSE_COMPLETE_FLOW

\* C37: a render_flow call that stops at a gate block, stops at a video block
\* or fails to load the blocks schedules no post-flow action job and leaves
\* the state of the user unchanged; post-flow actions are scheduled only by a
\* call that reaches the end of the block list.
C37_StopsScheduleNothing ==
    [][StopFrame /\ OnlyEndSchedules /\ OnlyEndUnlocks]_vars

\* C37 witness: a call for user 1 has returned at the gate of a flow that has
\* an active post-flow action; the reminder job of the gate is pending, no
\* action job of user 1 exists and the lessons of user 1 are not unlocked.
C37_Witness ==
    \E i \in TaskIds : \E a \in ActiveActions(tasks[i].flow) :
        /\ tasks[i].uid = 1 /\ tasks[i].out = "gate" /\ tasks[i].pc = "done"
        /\ tasks[i].flow = D1
        /\ \E k \in JobsOf(1, _job_gate(5, D2)) : jobs[k].is_done = 0
        /\ ActionRows(jobs, 1) = {}
        /\ 1 \notin unlocked

\* the same at the video block of day2 and on a failure to load day2
VideoStopSchedulesNothing ==
    \E i \in TaskIds : \E a \in ActiveActions(tasks[i].flow) :
        /\ tasks[i].out = "video" /\ tasks[i].flow = D2
        /\ ActionRows(jobs, tasks[i].uid) = {}

LoadFailureSchedulesNothing ==
    \E i \in TaskIds : \E a \in ActiveActions(tasks[i].flow) :
        /\ tasks[i].out = "loadfail" /\ tasks[i].flow = D2
        /\ tasks[i].pc = "done"
        /\ ActionRows(jobs, tasks[i].uid) = {}

\* and a call that reached the end of day2 has left the job of its action
EndSchedules ==
    \E i \in TaskIds : \E a \in ActiveActions(tasks[i].flow) :
        /\ tasks[i].out = "end" /\ tasks[i].flow = D2
        /\ JobsOf(tasks[i].uid, ActionKey(a)) # {}

----------------------------------------------------------------------------
(* C38 *)

\* the calls that have returned at a video block, and that block
VideoStops == {i \in TaskIds : tasks[i].out = "video"}

\* a watch prompt is sent only for a block that has a video reference
NoPromptWithoutVideo ==
    \A u \in Users : \A n \in 1..Len(sent[u]) :
        sent[u][n].kind = "video_gate" => Row(sent[u][n].blk).video # ""

\* a call returns at a video block only when the block has a video reference
NoHaltWithoutVideo ==
    \A i \in VideoStops : tasks[i].bl[tasks[i].idx].video # ""

\* C38: an active video block without a video reference does not halt the
\* flow: no watch prompt is sent for it and render_flow goes on to the blocks
\* after it.
C38_EmptyVideoNotHalting == [](NoPromptWithoutVideo /\ NoHaltWithoutVideo)

\* what render_flow does instead: the call for day2 has returned at block 7,
\* which has no video reference, without a message; the text of block 8 has
\* reached nobody and no resume job exists
HaltedSilently ==
    \E i \in VideoStops :
        /\ tasks[i].flow = D2 /\ tasks[i].pc = "done"
        /\ tasks[i].bl[tasks[i].idx].id = 7
        /\ tasks[i].bl[tasks[i].idx].video = ""
        /\ \A n \in 1..Len(sent[tasks[i].uid]) : sent[tasks[i].uid][n].call # i
        /\ \A u \in Users : \A n \in 1..Len(sent[u]) : sent[u][n].blk # 8
        /\ \A k \in 1..Len(jobs) : Head(jobs[k].flow) # "resume"

----------------------------------------------------------------------------
(* C39 *)

\* the executions of flow jobs
FlowJob(i) == tasks[i].kind = "job" /\ StartsWith(tasks[i].key, "flow")

\* the flow jobs that come up for execution in this step and find the cached
\* mode of their flow other than auto
FiringNotAuto ==
    {i \in TaskIds : /\ FlowJob(i)
                     /\ tasks[i].pc = "sem" /\ tasks'[i].pc # "sem"
                     /\ ModeIn(flowModes, Tail(tasks[i].key)) # "auto"}

\* such an execution goes straight to its finally clause: no render_flow
\* call, no message, no lock
SkippedWithoutRender ==
    \A i \in FiringNotAuto : /\ tasks'[i].pc = "mark"
                             /\ tasks'[i].flow = EmptyStr
                             /\ sent' = sent
                             /\ locks' = locks

\* the executions of flow jobs that made no render_flow call
SkippedJobs ==
    {i \in TaskIds : /\ FlowJob(i) /\ tasks[i].pc \in {"mark", "done"}
                     /\ tasks[i].flow = EmptyStr}

\* the end of such an execution leaves the job done and out of flight
SkippedMarkedDone ==
    \A i \in Finishing \cap SkippedJobs :
        /\ jobs'[tasks[i].jid].is_done = 1
        /\ tasks[i].jid \notin running'

\* such an execution never sends anything
SkippedNeverRenders ==
    \A i \in SkippedJobs :
        \A n \in 1..Len(sent[tasks[i].uid]) : sent[tasks[i].uid][n].call # i

\* a job that is done since an execution that made no render_flow call (the
\* last of its executions) is not dispatched
SkippedNotRedispatched ==
    \A i \in SkippedJobs :
        (/\ tasks[i].pc = "done" /\ jobs[tasks[i].jid].is_done = 1
         /\ \A k \in TaskIds :
               (tasks[k].kind = "job" /\ tasks[k].jid = tasks[i].jid) => k <= i)
            => \A d \in Dispatched : tasks'[d].jid # tasks[i].jid

\* C39: a flow:<f> job that comes up for execution while the cached mode of
\* f is not auto is marked done without rendering, and it does not fire
\* later, when the mode of f is auto again, unless it is enqueued again (a
\* done job is not dispatched and becomes pending only by an upsert).
C39_SkippedNotDeferred ==
    /\ [][SkippedWithoutRender /\ SkippedMarkedDone]_vars
    /\ [][SkippedNotRedispatched /\ RearmedOnlyByUpsert]_vars
    /\ []SkippedNeverRenders

\* C39 witness: the job flow:welcome of user 1 came up while the cache was
\* not auto for welcome and is done, nothing of welcome was sent; the cache
\* has been refreshed since and holds auto for welcome, the scheduler has
\* dispatched another job after that, and the job of welcome was dispatched
\* once.
C39_Witness ==
    \E i \in SkippedJobs : \E j \in TaskIds :
        /\ tasks[i].uid = 1 /\ tasks[i].key = _job_flow(W)
        /\ tasks[i].pc = "done"
        /\ jobs[tasks[i].jid].is_done = 1
        /\ _mode(W) = "auto"
        /\ sched.last_modes_refresh > jobs[tasks[i].jid].run_at_ts
        /\ i < j /\ tasks[j].kind = "job" /\ tasks[j].jid # tasks[i].jid
        /\ \A k \in TaskIds : (tasks[k].kind = "job" /\ tasks[k].jid = tasks[i].jid) => k = i
        /\ \A n \in 1..Len(sent[1]) : sent[1][n].blk \notin {1, 2}

\* the same after a change made on the console: the job flow:day2 came up
\* while the cache held manual for day2 and is done, nothing of day2 was sent
SkippedWhileManual ==
    \E i \in SkippedJobs :
        /\ tasks[i].key = _job_flow(D2) /\ tasks[i].pc = "done"
        /\ flowModes[D2] = "manual"
        /\ jobs[tasks[i].jid].is_done = 1
        /\ \A u \in Users : \A n \in 1..Len(sent[u]) : sent[u][n].blk \notin {7, 8}

----------------------------------------------------------------------------
(* C40 *)

\* every flow is treated as mode off
AllOff(cache) == \A f \in FlowNames : ModeIn(cache, f) = "off"

\* the steps that call refresh_flow_modes: the head of a scheduler tick that
\* finds the cache old, and a start event
LoopRefreshes ==
    sched.pc = "sleep" /\ sched'.pc = "fetch"

Starting(u) ==
    /\ Len(sent'[u]) = Len(sent[u]) + 1
    /\ sent'[u][Len(sent'[u])].kind = "start_menu"

\* a refresh leaves the cache equal to the mode store or, when it fails,
\* empty; nothing else changes the cache
RefreshResult ==
    /\ (LoopRefreshes \/ \E u \in Users : Starting(u))
          => (flowModes' = get_flow_modes \/ AllOff(flowModes'))
    /\ flowModes' # flowModes
          => (LoopRefreshes \/ \E u \in Users : Starting(u))
    /\ "get_flow_modes" \notin faulty
          => ((LoopRefreshes \/ \E u \in Users : Starting(u))
                 => flowModes' = get_flow_modes)

\* the store holds modes other than off, so that an empty cache is one a
\* failed refresh left
StoreHasAuto == \E f \in FlowNames : get_flow_modes[f] = "auto"

\* a start event whose refresh failed enqueues nothing
StartEnqueuesNothing ==
    \A u \in Users :
        (Starting(u) /\ AllOff(flowModes')) => jobs' = jobs /\ upserts' = upserts

\* a flow job that comes up while the cache is empty renders nothing
DueRendersNothing ==
    \A i \in TaskIds :
        (/\ FlowJob(i) /\ tasks[i].pc = "sem" /\ tasks'[i].pc # "sem"
         /\ AllOff(flowModes))
            => /\ tasks'[i].pc = "mark" /\ tasks'[i].flow = EmptyStr
               /\ sent' = sent

\* C40: when a refresh of the flow-mode cache fails the cache becomes empty
\* and every flow is treated as mode off until a later refresh succeeds;
\* meanwhile a start event enqueues no flow job and a due flow:<f> job
\* renders nothing.
C40_FailedRefreshAllOff ==
    [][RefreshResult /\ StartEnqueuesNothing /\ DueRendersNothing]_vars

\* C40 witness: the store holds auto for welcome and day2 and the cache is
\* empty; user 1, for whom welcome was rendered, has sent /start again and
\* no job was enqueued or moved by it; the job flow:day2 of user 1 came up
\* meanwhile and is done, and nothing of day2 was sent.
C40_Witness ==
    /\ StoreHasAuto /\ get_flow_modes[W] = "auto" /\ get_flow_modes[D2] = "auto"
    /\ AllOff(flowModes)
    /\ \E n \in 1..Len(sent[1]) :
          sent[1][n].kind = "start_menu" /\ sent[1][n].at > StartTime
    /\ \A h \in upserts : h.n = 1
    /\ \E k \in JobsOf(1, _job_flow(W)) :
          jobs[k].is_done = 1 /\ jobs[k].run_at_ts = StartTime
    /\ \E i \in SkippedJobs :
          /\ tasks[i].uid = 1 /\ tasks[i].key = _job_flow(D2)
          /\ tasks[i].pc = "done" /\ jobs[tasks[i].jid].is_done = 1
          /\ jobs[tasks[i].jid].run_at_ts = StartTime + 86400
    /\ \A u \in Users : \A n \in 1..Len(sent[u]) : sent[u][n].blk \notin {7, 8}

\* a later refresh has succeeded: user 1 has sent /start twice on a fresh
\* bot; the first, with its refresh failed, enqueued nothing, the second has
\* filled the cache from the store and enqueued the flow jobs
RefreshedAgain ==
    /\ flowModes = get_flow_modes /\ StoreHasAuto
    /\ "get_flow_modes" \in faulty
    /\ Len(sent[1]) = 2
    /\ \A n \in 1..Len(sent[1]) : sent[1][n].kind = "start_menu"
    /\ JobsOf(1, _job_flow(W)) # {}
    /\ \A h \in upserts : h.n = 1

====
